---- MODULE Spec2Model ----
(***************************************************************************)
(* Source-reader subsystem of feconf: the file, HTTP (SSE), WebSocket,     *)
(* Redis (key-value) and Kubernetes (cluster-resource) readers behind the  *)
(* Read / Subscribe / Close contract.                                      *)
(*                                                                         *)
(* One reader instance is modelled at a time; Init picks its kind and its  *)
(* retry configuration.  Caller goroutines invoke Read, Subscribe and      *)
(* Close; every successful Subscribe starts a producer (a goroutine, or    *)
(* for k8s the informer's handler goroutine) that feeds a depth-1 channel. *)
(***************************************************************************)
EXTENDS Integers, Sequences, FiniteSets, TLC

\* ---------------------------------------------------------------- bounds
MaxSubs    == 2   \* Subscribe attempts that get past the closed check
MaxRetry   == 2   \* largest configured retry count
MaxEvents  == 2   \* events the source lets the producers create
MaxChanges == 1   \* changes made to the source (writes, SETs, updates)
NumVals    == 2   \* distinct non-empty payloads
MaxPings   == 2   \* WebSocket connections accepted while ping goroutines live

\* ------------------------------------------------------- program constants
QueueDepth == 1   \* make(chan *reader.ReadEvent, 1)
SubsChanCap == 1  \* make(chan *redis.PubSub, 1)

Kinds   == {"file", "http", "ws", "redis", "k8s"}
Callers == {"c1"}
Subs    == 1..MaxSubs

Nil     == -1     \* nil []byte
Missing == -2     \* the source (file, key, resource) does not exist
Contents == 1..NumVals      \* payloads; 0 is the empty payload

VARIABLES
    kind,           \* which reader this instance is
    retryAttempts,  \* config.RetryAttempts / config.MaxRetries
    retryDelay,     \* config.RetryDelay: 0 or positive
    slots,          \* Subscribe calls the caller makes on an open reader
    budget,         \* events the sources cause during the run
    closed,         \* the reader's closed flag
    wlock, rlocks,  \* sync.RWMutex: writer holds it / number of read holders
    watcher,        \* file: f.watcher (0 = nil, else the slot that made it)
    informer,       \* k8s: k.informer (0 = nil)
    stopCh,         \* k8s: k.stopCh   (0 = nil)
    subsChan,       \* redis: r.subsChan, a buffered channel of pubsub handles
    clientCloses,   \* redis: number of client.Close() calls
    content,        \* current value of the source
    changes,        \* number of changes made to the source so far
    cpc,            \* caller: position
    cop,            \* caller: the operation it runs / ran last
    cctx,           \* caller: the call's context is cancelled
    cpre,           \* caller: the context was already cancelled at the call
    cres,           \* caller: result of the last completed call
    catt,           \* caller: attempt (loop variable of fetchWithRetry)
    chits,          \* caller: requests issued by the current Read
    clast,          \* caller: lastErr of fetchWithRetry
    cresp,          \* caller: history of the fetch outcomes of this Read
    cafter,         \* caller: the call began after a Close had returned
    cslot,          \* caller: slot of the Subscribe in progress
    closeDone,      \* some Close call has returned
    nsubs,          \* slots used
    ppc,            \* producer: position
    sctx,           \* subscription: its context is cancelled
    safter,         \* subscription: created by a call begun after Close
    sok,            \* subscription: its Subscribe returned the queue
    queue,          \* subscription: the event channel's buffer
    qcloses,        \* subscription: number of close(eventChan)
    hand,           \* producer: the event it is trying to send
    np,             \* producer: events created so far
    received,       \* consumer: events taken from the channel, in order
    rstate,         \* transport resource of the slot: none / open / closed
    rcloses,        \* Close() calls on the slot's current transport resource
    notif,          \* pending change notifications of the slot's watch
    pings,          \* ws: live ping goroutines of the slot
    stream, pos, eventData, emitted, sseDone,  \* processSSEStream
    flags,          \* redis server: flags of notify-keyspace-events
    cur,            \* ensureKeyspaceNotifications: currentConfig
    epc,            \* ensureKeyspaceNotifications: position
    eres,           \* ensureKeyspaceNotifications: returned error
    resKind,        \* k8s: k.resourceType
    resData,        \* k8s: Data of the fetched ConfigMap / Secret
    resKey,         \* k8s: k.key, the selector
    resOut,         \* k8s: (value, error) of readConfigMap / readSecret
    registry,       \* reader: schemeReaderMap, the schemes with a constructor
    ridx,           \* next init() registration to run
    uri,            \* the URI handed to NewReader / NewFileReader
    entry,          \* the function called with it
    fexists,        \* whether the path names an existing file
    upc,            \* position of that call
    uout,           \* its result: "reader" or an error
    invoked,        \* constructors GetReader has called, in order
    stats,          \* filesystem calls (os.Stat) made
    eventChan,      \* conf: the reader's event channel, as SubscribeCtx sees it
    eventClosed,    \* the reader closed it
    confEventChan,  \* make(chan *ConfEvent[T], 1)
    confClosed,     \* the forwarding goroutine closed it
    fpc,            \* position of the forwarding goroutine
    fprev,          \* the reader event it received last
    fdec,           \* how decoding that event went
    confEvent,      \* the ConfEvent it built last
    rawData,        \* c.rawData
    fsent,          \* events the reader has sent
    wopen,          \* ws: connections dialled by readOnce and not closed
    wdials,         \* ws: connections dialled by the current Read
    wmsgs,          \* ws: messages received by the current Read
    readers,        \* loader: the readers parseUri constructed, in order
    creader,        \* loader: c.reader, an index into readers, 0 for nil
    lclosed         \* loader: Close was the last call on the ConfOpt

cfgVars  == <<kind, retryAttempts, retryDelay, slots, budget>>
lockVars == <<closed, wlock, rlocks, closeDone>>
markVars == <<watcher, informer, stopCh, subsChan, clientCloses>>
srcVars  == <<content, changes>>
callVars == <<cpc, cop, cctx, cpre, cres, catt, chits, clast, cresp, cafter, cslot>>
subVars  == <<nsubs, ppc, sctx, safter, sok, queue, qcloses, hand, np, received,
              rstate, rcloses, notif, pings>>
sseVars  == <<stream, pos, eventData, emitted, sseDone>>
nkVars   == <<flags, cur, epc, eres>>
resVars  == <<resKind, resData, resKey, resOut>>
uriVars  == <<registry, ridx, uri, entry, fexists, upc, uout, invoked, stats>>
fwdVars  == <<eventChan, eventClosed, confEventChan, confClosed, fpc, fprev,
              fdec, confEvent, rawData, fsent>>
wsrVars  == <<wopen, wdials, wmsgs>>
ownVars  == <<readers, creader, lclosed>>
vars == <<cfgVars, lockVars, markVars, srcVars, callVars, subVars, sseVars,
         nkVars, resVars, uriVars, fwdVars, wsrVars, ownVars>>

\* ------------------------------------------------------------ values
\* ReadEvent: id is the producer's creation order; err "none" is a nil error
Ev(i, e, d) == [id |-> i, err |-> e, data |-> d]
NoEv == Ev(0, "none", Nil)

\* (data, error) pairs returned by Read / Subscribe / Close
NoRes == [tag |-> "none", data |-> Nil, n |-> 0, cause |-> "none"]
Ok(d) == [tag |-> "ok", data |-> d, n |-> 0, cause |-> "none"]
Err(t) == [tag |-> t, data |-> Nil, n |-> 0, cause |-> "none"]
\* fmt.Errorf("failed after %d attempts: %w", n, lastErr)
FailedAfter(n, e) == [tag |-> "failedAfter", data |-> Nil, n |-> n, cause |-> e]

\* IsValid: error nil and payload non-empty
IsValid(e) == e.err = "none" /\ e.data > 0

RetryKinds == {"http", "ws", "redis"}


\* ------------------------------------------------------------ sync.RWMutex
RLockFree == ~wlock
LockFree  == ~wlock /\ rlocks = 0

\* variant: the guard is missing
ClosedCheckOff == FALSE

\* the `if x.closed { return nil, fmt.Errorf("reader is closed") }` guard of
\* Read and Subscribe
ClosedCheck == closed

\* the `if f.watcher != nil` / `if k.informer != nil` guard of Subscribe;
\* the HTTP, WebSocket and Redis readers have no such guard
AlreadySubscribed ==
    CASE kind = "file" -> watcher # 0
      [] kind = "k8s"  -> informer # 0
      [] OTHER         -> FALSE

\* ------------------------------------------------------------ one fetch
\* outcomes one fetch attempt can have: an error tag, or "ok"
\* (a cancelled context makes every network call fail)
FetchOutcomes(c) ==
    CASE kind = "file" ->
            IF content = Missing THEN {"open"} ELSE {"ok"}
      [] kind = "http" ->
            IF cctx[c] THEN {"do"}
            ELSE {"do", "status500"} \cup
                 (IF content = Missing THEN {"status404"} ELSE {"ok"})
      [] kind = "ws" ->
            IF cctx[c] THEN {"dial"}
            ELSE {"dial", "readMessage"} \cup
                 (IF content = Missing THEN {} ELSE {"ok"})
      [] kind = "redis" ->
            IF cctx[c] \/ clientCloses > 0 THEN {"get"}
            ELSE {"get"} \cup
                 (IF content = Missing THEN {"notFound"} ELSE {"ok"})
      [] OTHER ->  \* k8s
            IF cctx[c] \/ content = Missing THEN {"get"} ELSE {"get", "ok"}

\* ------------------------------------------------------------ Close
\* the call returns r to its caller (the lock, if held, is released by
\* the deferred Unlock in the same step)
Release(c, r) ==
    /\ cpc' = [cpc EXCEPT ![c] = "ret"]
    /\ cres' = [cres EXCEPT ![c] = r]

\* the caller has looked at the result and is ready for its next call
Return(c) ==
    /\ cpc[c] = "ret"
    /\ cpc' = [cpc EXCEPT ![c] = "idle"]
    /\ cop' = [cop EXCEPT ![c] = "none"]
    /\ cctx' = [cctx EXCEPT ![c] = FALSE]
    /\ cpre' = [cpre EXCEPT ![c] = FALSE]
    /\ cres' = [cres EXCEPT ![c] = NoRes]
    /\ catt' = [catt EXCEPT ![c] = 0]
    /\ chits' = [chits EXCEPT ![c] = 0]
    /\ clast' = [clast EXCEPT ![c] = "none"]
    /\ cresp' = [cresp EXCEPT ![c] = <<>>]
    /\ cafter' = [cafter EXCEPT ![c] = FALSE]
    /\ cslot' = [cslot EXCEPT ![c] = 0]
    /\ UNCHANGED <<cfgVars, lockVars, markVars, srcVars, subVars, sseVars, nkVars, resVars, uriVars, fwdVars, wsrVars, ownVars>>

Close(c) ==
    /\ cpc[c] = "idle"
    /\ LockFree
    /\ cop' = [cop EXCEPT ![c] = "close"]
    /\ cafter' = [cafter EXCEPT ![c] = closeDone]
    /\ Release(c, Ok(Nil))
    /\ closeDone' = TRUE
    /\ IF closed
       THEN UNCHANGED <<closed, markVars, rstate, rcloses>>
       ELSE /\ closed' = TRUE
            /\ CASE kind = "file" ->
                      /\ watcher' = 0
                      /\ IF watcher # 0
                         THEN /\ rstate' = [rstate EXCEPT ![watcher] = "closed"]
                              /\ rcloses' = [rcloses EXCEPT ![watcher] = @ + 1]
                         ELSE UNCHANGED <<rstate, rcloses>>
                      /\ UNCHANGED <<informer, stopCh, subsChan, clientCloses>>
                 [] kind = "k8s" ->
                      /\ informer' = 0
                      /\ stopCh' = 0
                      /\ IF stopCh # 0
                         THEN /\ rstate' = [rstate EXCEPT ![stopCh] = "closed"]
                              /\ rcloses' = [rcloses EXCEPT ![stopCh] = @ + 1]
                         ELSE UNCHANGED <<rstate, rcloses>>
                      /\ UNCHANGED <<watcher, subsChan, clientCloses>>
                 [] kind = "redis" ->
                      /\ clientCloses' = clientCloses + 1
                      /\ IF subsChan # <<>>
                         THEN /\ subsChan' = Tail(subsChan)
                              /\ rstate' = [rstate EXCEPT ![Head(subsChan)] = "closed"]
                              /\ rcloses' = [rcloses EXCEPT ![Head(subsChan)] = @ + 1]
                         ELSE UNCHANGED <<subsChan, rstate, rcloses>>
                      /\ UNCHANGED <<watcher, informer, stopCh>>
                 [] OTHER ->  \* http: CloseIdleConnections; ws: nothing
                      UNCHANGED <<markVars, rstate, rcloses>>
    /\ UNCHANGED <<cfgVars, wlock, rlocks, srcVars, cctx, cpre, catt, chits,
                   clast, cresp, cslot, nsubs, ppc, sctx, safter, sok, queue,
                   qcloses, hand, np, received, notif, pings, sseVars, nkVars, resVars, uriVars, fwdVars, wsrVars, ownVars>>

\* ------------------------------------------------------------ Read
\* Read up to the first suspension point: RLock, closed check, and for the
\* file and k8s readers the non-blocking ctx.Done() check
ReadBegin(c) ==
    /\ cpc[c] = "idle"
    /\ RLockFree
    /\ \E pre \in BOOLEAN :
        /\ cctx' = [cctx EXCEPT ![c] = pre]
        /\ cpre' = [cpre EXCEPT ![c] = pre]
        /\ cop' = [cop EXCEPT ![c] = "read"]
        /\ cafter' = [cafter EXCEPT ![c] = closeDone]
        /\ catt' = [catt EXCEPT ![c] = 0]
        /\ chits' = [chits EXCEPT ![c] = 0]
        /\ clast' = [clast EXCEPT ![c] = "none"]
        /\ cresp' = [cresp EXCEPT ![c] = <<>>]
        /\ IF ClosedCheck
           THEN Release(c, Err("closed")) /\ UNCHANGED rlocks
           ELSE IF kind \in {"file", "k8s"} /\ pre
           THEN Release(c, Err("ctxCanceled")) /\ UNCHANGED rlocks
           ELSE IF kind \in RetryKinds /\ ~(0 < retryAttempts)
           THEN Release(c, FailedAfter(retryAttempts, "none")) /\ UNCHANGED rlocks
           ELSE /\ cpc' = [cpc EXCEPT ![c] = "rd_fetch"]
                /\ rlocks' = rlocks + 1
                /\ UNCHANGED cres
    /\ UNCHANGED <<cfgVars, closed, wlock, closeDone, markVars, srcVars, cslot,
                   subVars, sseVars, nkVars, resVars, uriVars, fwdVars, wsrVars, ownVars>>

\* variant: the loop bound is `attempt <= RetryAttempts`
AfterFailureOffByOne(c, e) ==
    IF catt[c] + 1 <= retryAttempts
    THEN /\ cpc' = [cpc EXCEPT ![c] = "rd_wait"]
         /\ UNCHANGED <<cres, rlocks>>
    ELSE /\ Release(c, FailedAfter(retryAttempts, e))
         /\ rlocks' = rlocks - 1

\* the loop of fetchWithRetry / readWithRetry after a failed attempt:
\* attempt++, and either the next iteration's wait or the final error
AfterFailure(c, e) ==
    IF catt[c] + 1 < retryAttempts
    THEN /\ cpc' = [cpc EXCEPT ![c] = "rd_wait"]
         /\ UNCHANGED <<cres, rlocks>>
    ELSE /\ Release(c, FailedAfter(retryAttempts, e))
         /\ rlocks' = rlocks - 1

\* one fetch (attempt) made while the read lock is held
ReadFetch(c) ==
    /\ cpc[c] = "rd_fetch"
    /\ \E o \in FetchOutcomes(c) :
        /\ chits' = [chits EXCEPT ![c] = @ + 1]
        /\ cresp' = [cresp EXCEPT ![c] = Append(@, o)]
        /\ IF o = "ok"
           THEN /\ Release(c, Ok(content))
                /\ rlocks' = rlocks - 1
                /\ UNCHANGED <<catt, clast>>
           ELSE IF kind \in RetryKinds
           THEN /\ clast' = [clast EXCEPT ![c] = o]
                /\ catt' = [catt EXCEPT ![c] = @ + 1]
                /\ AfterFailure(c, o)
           ELSE /\ Release(c, Err(o))
                /\ rlocks' = rlocks - 1
                /\ UNCHANGED <<catt, clast>>
    /\ UNCHANGED <<cfgVars, closed, wlock, closeDone, markVars, srcVars, cop,
                   cctx, cpre, cafter, cslot, subVars, sseVars, nkVars, resVars, uriVars, fwdVars, wsrVars, ownVars>>

\* select { case <-ctx.Done(): return nil, ctx.Err()
\*          case <-time.After(RetryDelay): }
\* a context cancelled before a positive delay has run always wins
ReadWaitCancelled(c) ==
    /\ cpc[c] = "rd_wait"
    /\ cctx[c]
    /\ Release(c, Err("ctxCanceled"))
    /\ rlocks' = rlocks - 1
    /\ UNCHANGED <<cfgVars, closed, wlock, closeDone, markVars, srcVars, cop,
                   cctx, cpre, catt, chits, clast, cresp, cafter, cslot,
                   subVars, sseVars, nkVars, resVars, uriVars, fwdVars, wsrVars, ownVars>>

ReadWaitTimer(c) ==
    /\ cpc[c] = "rd_wait"
    /\ ~cctx[c] \/ retryDelay = 0
    /\ cpc' = [cpc EXCEPT ![c] = "rd_fetch"]
    /\ UNCHANGED <<cfgVars, lockVars, markVars, srcVars, cop, cctx, cpre, cres,
                   catt, chits, clast, cresp, cafter, cslot, subVars, sseVars, nkVars, resVars, uriVars, fwdVars, wsrVars, ownVars>>

\* the caller's context is cancelled while the call is running
CancelCall(c) ==
    /\ cpc[c] \notin {"idle", "ret"}
    /\ ~cctx[c]
    /\ cctx' = [cctx EXCEPT ![c] = TRUE]
    /\ UNCHANGED <<cfgVars, lockVars, markVars, srcVars, cpc, cop, cpre, cres,
                   catt, chits, clast, cresp, cafter, cslot, subVars, sseVars, nkVars, resVars, uriVars, fwdVars, wsrVars, ownVars>>


\* ------------------------------------------------------------ WebSocket readOnce
\* no connection dialled by Read
NoWSRead ==
    /\ wopen = 0
    /\ wdials = 0
    /\ wmsgs = 0

\* variant: readOnce returns without closing the connection
ConnLeft(n) == n

\* defer conn.Close(): the connections left open when readOnce returns
ConnClosed(n) == n - 1

\* readOnce up to ReadMessage: w.dialer.DialContext
WSDial(c) ==
    /\ kind = "ws"
    /\ cpc[c] = "rd_fetch"
    /\ chits' = [chits EXCEPT ![c] = @ + 1]
    /\ wdials' = IF chits[c] = 0 THEN 1 ELSE wdials + 1
    /\ wmsgs' = IF chits[c] = 0 THEN 0 ELSE wmsgs
    /\ \E ok \in (IF cctx[c] THEN {FALSE} ELSE BOOLEAN) :
         IF ok
         THEN /\ wopen' = wopen + 1
              /\ cpc' = [cpc EXCEPT ![c] = "rd_msg"]
              /\ UNCHANGED <<cres, rlocks, catt, clast, cresp>>
         ELSE /\ cresp' = [cresp EXCEPT ![c] = Append(@, "dial")]
              /\ clast' = [clast EXCEPT ![c] = "dial"]
              /\ catt' = [catt EXCEPT ![c] = @ + 1]
              /\ AfterFailure(c, "dial")
              /\ UNCHANGED wopen
    /\ UNCHANGED <<cfgVars, closed, wlock, closeDone, markVars, srcVars, cop,
                   cctx, cpre, cafter, cslot, subVars, sseVars, nkVars,
                   resVars, uriVars, fwdVars, ownVars>>

\* readOnce from SetReadDeadline to its return: one conn.ReadMessage, then
\* the deferred conn.Close()
WSReadOne(c) ==
    /\ kind = "ws"
    /\ cpc[c] = "rd_msg"
    /\ wopen' = ConnClosed(wopen)
    /\ \E o \in (IF cctx[c] \/ content = Missing THEN {"readMessage"}
                                                 ELSE {"readMessage", "ok"}) :
         /\ cresp' = [cresp EXCEPT ![c] = Append(@, o)]
         /\ IF o = "ok"
            THEN /\ wmsgs' = wmsgs + 1
                 /\ Release(c, Ok(content))
                 /\ rlocks' = rlocks - 1
                 /\ UNCHANGED <<catt, clast>>
            ELSE /\ clast' = [clast EXCEPT ![c] = o]
                 /\ catt' = [catt EXCEPT ![c] = @ + 1]
                 /\ AfterFailure(c, o)
                 /\ UNCHANGED wmsgs
    /\ UNCHANGED <<cfgVars, closed, wlock, closeDone, markVars, srcVars, cop,
                   cctx, cpre, chits, cafter, cslot, subVars, sseVars, nkVars,
                   resVars, uriVars, fwdVars, wdials, ownVars>>

\* ------------------------------------------------------------ Subscribe
\* (eventChan, nil) as returned by a successful Subscribe
Queue(s) == [tag |-> "queue", data |-> s, n |-> 0, cause |-> "none"]

\* first position of the producer goroutine each reader starts
ProducerEntry ==
    CASE kind = "file"  -> "f_select"
      [] kind = "http"  -> "h_top"
      [] kind = "ws"    -> "w_top"
      [] kind = "redis" -> "r_psub"
      [] OTHER          -> "k_idle"

\* Subscribe up to its first suspension point: Lock, closed check, the
\* already-subscribed check, creation of the watch and of the channel.
\* file, http and ws return here; redis and k8s go on to network calls
\* with the write lock held.
SubscribeBegin(c) ==
    /\ cpc[c] = "idle"
    /\ LockFree
    /\ \E pre \in BOOLEAN :
       LET s == nsubs + 1 IN
        /\ cctx' = [cctx EXCEPT ![c] = pre]
        /\ cpre' = [cpre EXCEPT ![c] = pre]
        /\ cop' = [cop EXCEPT ![c] = "subscribe"]
        /\ cafter' = [cafter EXCEPT ![c] = closeDone]
        /\ IF ClosedCheck
           THEN /\ Release(c, Err("closed"))
                /\ UNCHANGED <<wlock, markVars, cslot, subVars>>
           ELSE IF AlreadySubscribed
           THEN /\ Release(c, Err("alreadySubscribed"))
                /\ UNCHANGED <<wlock, markVars, cslot, subVars>>
           ELSE
             /\ nsubs < slots
             /\ nsubs' = s
             /\ safter' = [safter EXCEPT ![s] = closeDone]
             /\ sctx' = [sctx EXCEPT ![s] = pre]
             /\ UNCHANGED <<queue, qcloses, hand, np, received, pings, subsChan, clientCloses>>
             /\ CASE kind = "file" ->
                      \* fsnotify.NewWatcher, then watcher.Add(f.filePath)
                      IF content = Missing
                      THEN /\ rstate' = [rstate EXCEPT ![s] = "closed"]
                           /\ rcloses' = [rcloses EXCEPT ![s] = 1]
                           /\ ppc' = [ppc EXCEPT ![s] = "failed"]
                           /\ Release(c, Err("watch"))
                           /\ UNCHANGED <<sok, wlock, watcher, informer, stopCh,
                                          cslot, notif>>
                      ELSE /\ watcher' = s
                           /\ sok' = [sok EXCEPT ![s] = TRUE]
                           /\ rstate' = [rstate EXCEPT ![s] = "open"]
                           /\ ppc' = [ppc EXCEPT ![s] = ProducerEntry]
                           /\ Release(c, Queue(s))
                           /\ UNCHANGED <<wlock, informer, stopCh, cslot,
                                          rcloses, notif>>
                  [] kind \in {"http", "ws"} ->
                      /\ sok' = [sok EXCEPT ![s] = TRUE]
                      /\ ppc' = [ppc EXCEPT ![s] = ProducerEntry]
                      /\ Release(c, Queue(s))
                      /\ UNCHANGED <<wlock, watcher, informer, stopCh, cslot,
                                     rstate, rcloses, notif>>
                  [] kind = "redis" ->
                      /\ wlock' = TRUE
                      /\ cpc' = [cpc EXCEPT ![c] = "sub_ensure"]
                      /\ cslot' = [cslot EXCEPT ![c] = s]
                      /\ UNCHANGED <<sok, cres, watcher, informer, stopCh, ppc,
                                     rstate, rcloses, notif>>
                  [] OTHER ->  \* k8s: informer and stop channel, handlers added
                      /\ wlock' = TRUE
                      /\ informer' = s
                      /\ stopCh' = s
                      /\ rstate' = [rstate EXCEPT ![s] = "open"]
                      /\ ppc' = [ppc EXCEPT ![s] = ProducerEntry]
                      /\ notif' = [notif EXCEPT ![s] =
                                     IF content = Missing THEN <<>> ELSE <<"add">>]
                      /\ cpc' = [cpc EXCEPT ![c] = "sub_sync"]
                      /\ cslot' = [cslot EXCEPT ![c] = s]
                      /\ UNCHANGED <<sok, cres, watcher, rcloses>>
    /\ UNCHANGED <<cfgVars, closed, rlocks, closeDone, srcVars, catt, chits,
                   clast, cresp, sseVars, nkVars, resVars, uriVars, fwdVars, wsrVars, ownVars>>

\* variant: a failed setup hands back the closed queue instead of an error
SubscribeEnsureSilent(c) ==
    /\ cpc[c] = "sub_ensure"
    /\ LET s == cslot[c] IN
       \E ok \in (IF cctx[c] THEN {FALSE} ELSE BOOLEAN) :
        /\ wlock' = FALSE
        /\ sctx' = [sctx EXCEPT ![s] = cctx[c]]
        /\ sok' = [sok EXCEPT ![s] = ok]
        /\ IF ok
           THEN /\ ppc' = [ppc EXCEPT ![s] = ProducerEntry]
                /\ Release(c, Queue(s))
                /\ UNCHANGED qcloses
           ELSE /\ ppc' = [ppc EXCEPT ![s] = "failed"]
                /\ qcloses' = [qcloses EXCEPT ![s] = @ + 1]
                /\ Release(c, Queue(s))
    /\ UNCHANGED <<cfgVars, closed, rlocks, closeDone, markVars, srcVars, cop,
                   cctx, cpre, catt, chits, clast, cresp, cafter, cslot, nsubs,
                   safter, queue, hand, np, received, rstate, rcloses,
                   notif, pings, sseVars, nkVars, resVars, uriVars, fwdVars, wsrVars, ownVars>>

\* variant: the producer is started although the channel was closed
SubscribeEnsureStarts(c) ==
    /\ cpc[c] = "sub_ensure"
    /\ LET s == cslot[c] IN
       \E ok \in (IF cctx[c] THEN {FALSE} ELSE BOOLEAN) :
        /\ wlock' = FALSE
        /\ sctx' = [sctx EXCEPT ![s] = cctx[c]]
        /\ sok' = [sok EXCEPT ![s] = ok]
        /\ ppc' = [ppc EXCEPT ![s] = ProducerEntry]
        /\ IF ok
           THEN /\ Release(c, Queue(s))
                /\ UNCHANGED qcloses
           ELSE /\ qcloses' = [qcloses EXCEPT ![s] = @ + 1]
                /\ Release(c, Err("notify"))
    /\ UNCHANGED <<cfgVars, closed, rlocks, closeDone, markVars, srcVars, cop,
                   cctx, cpre, catt, chits, clast, cresp, cafter, cslot, nsubs,
                   safter, queue, hand, np, received, rstate, rcloses,
                   notif, pings, sseVars, nkVars, resVars, uriVars, fwdVars, wsrVars, ownVars>>

\* redis: ensureKeyspaceNotifications (CONFIG GET / CONFIG SET) under the
\* write lock, then either the producer is started or the channel is closed
SubscribeEnsure(c) ==
    /\ cpc[c] = "sub_ensure"
    /\ LET s == cslot[c] IN
       \E ok \in (IF cctx[c] THEN {FALSE} ELSE BOOLEAN) :
        /\ wlock' = FALSE
        /\ sctx' = [sctx EXCEPT ![s] = cctx[c]]
        /\ sok' = [sok EXCEPT ![s] = ok]
        /\ IF ok
           THEN /\ ppc' = [ppc EXCEPT ![s] = ProducerEntry]
                /\ Release(c, Queue(s))
                /\ UNCHANGED qcloses
           ELSE /\ ppc' = [ppc EXCEPT ![s] = "failed"]
                /\ qcloses' = [qcloses EXCEPT ![s] = @ + 1]
                /\ Release(c, Err("notify"))
    /\ UNCHANGED <<cfgVars, closed, rlocks, closeDone, markVars, srcVars, cop,
                   cctx, cpre, catt, chits, clast, cresp, cafter, cslot, nsubs,
                   safter, queue, hand, np, received, rstate, rcloses,
                   notif, pings, sseVars, nkVars, resVars, uriVars, fwdVars, wsrVars, ownVars>>

\* variant: the informer and stop channel fields are not reset on failure
SubscribeSyncNoReset(c) ==
    /\ cpc[c] = "sub_sync"
    /\ LET s == cslot[c] IN
       \E ok \in (IF cctx[c] THEN BOOLEAN ELSE {TRUE}) :
        /\ wlock' = FALSE
        /\ sctx' = [sctx EXCEPT ![s] = cctx[c]]
        /\ sok' = [sok EXCEPT ![s] = ok]
        /\ IF ok
           THEN /\ Release(c, Queue(s))
                /\ UNCHANGED <<informer, stopCh, rstate, rcloses>>
           ELSE /\ rstate' = [rstate EXCEPT ![s] = "closed"]
                /\ rcloses' = [rcloses EXCEPT ![s] = @ + 1]
                /\ UNCHANGED <<informer, stopCh>>
                /\ Release(c, Err("sync"))
    /\ UNCHANGED <<cfgVars, closed, rlocks, closeDone, watcher, subsChan,
                   clientCloses, srcVars, cop, cctx, cpre, catt, chits, clast,
                   cresp, cafter, cslot, nsubs, ppc, safter, queue, qcloses,
                   hand, np, received, notif, pings, sseVars, nkVars, resVars, uriVars, fwdVars, wsrVars, ownVars>>

\* k8s: cache.WaitForCacheSync(ctx.Done(), informer.HasSynced) under the
\* write lock; it fails only once the context is done
SubscribeSync(c) ==
    /\ cpc[c] = "sub_sync"
    /\ LET s == cslot[c] IN
       \E ok \in (IF cctx[c] THEN BOOLEAN ELSE {TRUE}) :
        /\ wlock' = FALSE
        /\ sctx' = [sctx EXCEPT ![s] = cctx[c]]
        /\ sok' = [sok EXCEPT ![s] = ok]
        /\ IF ok
           THEN /\ Release(c, Queue(s))
                /\ UNCHANGED <<informer, stopCh, rstate, rcloses>>
           ELSE /\ rstate' = [rstate EXCEPT ![s] = "closed"]
                /\ rcloses' = [rcloses EXCEPT ![s] = @ + 1]
                /\ informer' = 0
                /\ stopCh' = 0
                /\ Release(c, Err("sync"))
    /\ UNCHANGED <<cfgVars, closed, rlocks, closeDone, watcher, subsChan,
                   clientCloses, srcVars, cop, cctx, cpre, catt, chits, clast,
                   cresp, cafter, cslot, nsubs, ppc, safter, queue, qcloses,
                   hand, np, received, notif, pings, sseVars, nkVars, resVars, uriVars, fwdVars, wsrVars, ownVars>>

\* ------------------------------------------------------------ environment
\* the subscription's context is cancelled by its owner
CancelSub(s) ==
    /\ s <= nsubs
    /\ ppc[s] # "failed"
    /\ ~sctx[s]
    /\ \A c \in Callers : ~(cpc[c] \in {"sub_ensure", "sub_sync"} /\ cslot[c] = s)
    /\ sctx' = [sctx EXCEPT ![s] = TRUE]
    /\ UNCHANGED <<cfgVars, lockVars, markVars, srcVars, callVars, nsubs, ppc,
                   safter, sok, queue, qcloses, hand, np, received, rstate,
                   rcloses, notif, pings, sseVars, nkVars, resVars, uriVars, fwdVars, wsrVars, ownVars>>

\* slots whose watch currently receives change notifications:
\* an open fsnotify watcher, a subscribed pubsub, a running informer
Watching(s) ==
    /\ s <= nsubs
    /\ rstate[s] = "open"
    /\ kind \in {"file", "redis", "k8s"}

\* what a watch is sent for one change.  watchFile takes every value of
\* watcher.Events with the Write or Create bit as a change of its own, and
\* fsnotify may report one write as one Write event or as several (a
\* truncation and the write of the new bytes); the other watches are sent
\* one notification
Notifications(op) ==
    IF kind = "file" /\ op # "delete" THEN {<<op>>, <<op, "update">>}
                                      ELSE {<<op>>}

\* the source changes: a write of new content, or its removal
Change(v) ==
    /\ changes < MaxChanges
    /\ kind \in {"file", "redis", "k8s"}
    /\ v # content
    /\ changes' = changes + 1
    /\ content' = v
    /\ LET op == CASE v = Missing -> "delete"
                   [] content = Missing -> "add"
                   [] OTHER -> "update"
       IN \E ns \in Notifications(op) :
            notif' = [s \in Subs |-> IF Watching(s) THEN notif[s] \o ns
                                     ELSE notif[s]]
    /\ UNCHANGED <<cfgVars, lockVars, markVars, callVars, nsubs, ppc, sctx,
                   safter, sok, queue, qcloses, hand, np, received, rstate,
                   rcloses, pings, sseVars, nkVars, resVars, uriVars, fwdVars, wsrVars, ownVars>>

\* the consumer takes the next event from the channel
Recv(s) ==
    /\ s <= nsubs
    /\ queue[s] # <<>>
    /\ received' = [received EXCEPT ![s] = Append(@, Head(queue[s]))]
    /\ queue' = [queue EXCEPT ![s] = Tail(@)]
    /\ UNCHANGED <<cfgVars, lockVars, markVars, srcVars, callVars, nsubs, ppc,
                   sctx, safter, sok, qcloses, hand, np, rstate, rcloses,
                   notif, pings, sseVars, nkVars, resVars, uriVars, fwdVars, wsrVars, ownVars>>



\* ------------------------------------------------------------ producers
RECURSIVE SumTo(_, _)
SumTo(f, n) == IF n = 0 THEN 0 ELSE f[n] + SumTo(f, n - 1)

\* the source may still cause an event (a change, a failure, a message)
EventsLeft == SumTo(np, MaxSubs) < budget
\* the server may still accept a connection
PingsLeft == SumTo(pings, MaxSubs) < MaxPings

\* reader.NewReadEvent(uri, data, err): the producer now holds the event
MkEv(s, e, d) ==
    /\ hand' = [hand EXCEPT ![s] = Ev(np[s] + 1, e, d)]
    /\ np' = [np EXCEPT ![s] = @ + 1]

\* the producer moves to position p.  Reaching "done" is the return of the
\* producer goroutine, whose deferred calls run: every producer goroutine
\* has `defer close(eventChan)`, subscribeKeyspace also `defer
\* pubsub.Close()`; watchFile does not close its watcher.  closeConn is the
\* resp.Body.Close() after processSSEStream, or the deferred ticker.Stop()
\* and conn.Close() of handleWSConnection.
Goto(s, p, closeConn) ==
    /\ ppc' = [ppc EXCEPT ![s] = p]
    /\ qcloses' = [qcloses EXCEPT ![s] = IF p = "done" THEN @ + 1 ELSE @]
    /\ IF closeConn \/ (p = "done" /\ kind = "redis")
       THEN /\ rstate' = [rstate EXCEPT ![s] = "closed"]
            /\ rcloses' = [rcloses EXCEPT ![s] = @ + 1]
       ELSE UNCHANGED <<rstate, rcloses>>

\* positions where the producer is in
\*   select { case eventChan <- confEvent: ...  case <-ctx.Done(): ... }
SendSites == {"f_send", "h_send_conn", "h_send_stream", "h_send_data",
              "w_send_dial", "w_send_msg", "w_send_err",
              "r_send_init", "r_send", "k_send"}

\* variant: the producer gives up after a failed connection attempt
AfterSendGiveUp(p) ==
    CASE p = "f_send"        -> "f_select"
      [] p = "h_send_conn"   -> "done"
      [] p = "h_send_stream" -> "h_wait"
      [] p = "h_send_data"   -> "h_scan"
      [] p = "w_send_dial"   -> "done"
      [] p = "w_send_msg"    -> "w_read"
      [] p = "w_send_err"    -> "w_wait"
      [] p = "r_send_init"   -> "r_listen"
      [] p = "r_send"        -> "r_listen"
      [] OTHER               -> "k_idle"

\* where each select continues after the send case
AfterSend(p) ==
    CASE p = "f_send"        -> "f_select"
      [] p = "h_send_conn"   -> "h_wait"
      [] p = "h_send_stream" -> "h_wait"
      [] p = "h_send_data"   -> "h_scan"
      [] p = "w_send_dial"   -> "w_wait"
      [] p = "w_send_msg"    -> "w_read"
      [] p = "w_send_err"    -> "w_wait"
      [] p = "r_send_init"   -> "r_listen"
      [] p = "r_send"        -> "r_listen"
      [] OTHER               -> "k_idle"

\* where each select continues after the ctx.Done() case
AfterCancel(p) ==
    CASE p = "f_send"        -> "done"
      [] p = "h_send_conn"   -> "done"
      [] p = "h_send_stream" -> "h_wait"
      [] p = "h_send_data"   -> "h_wait"
      [] p = "w_send_dial"   -> "w_wait"
      [] p = "w_send_msg"    -> "w_wait"
      [] p = "w_send_err"    -> "w_wait"
      [] p = "r_send_init"   -> "done"
      [] p = "r_send"        -> "done"
      [] OTHER               -> "k_idle"

\* the continuation leaves processSSEStream / handleWSConnection, so the
\* connection of the slot is closed on the way
LeavesConn(p, q) ==
    /\ p \in {"h_send_stream", "h_send_data", "w_send_msg", "w_send_err"}
    /\ q \in {"h_wait", "w_wait"}

\* the send case is ready when the depth-1 buffer has room
CanSend(s) == Len(queue[s]) < QueueDepth

\* unchanged by a producer step that only moves the producer
ProdFrame == <<cfgVars, lockVars, markVars, srcVars, callVars, nsubs, sctx,
               safter, sok, queue, received, pings, sseVars, nkVars, resVars,
               uriVars, fwdVars, wsrVars, ownVars>>

\* variant: a non-blocking send, `select { case eventChan <- ev: default: }`,
\* which drops the event when the buffer is full
SendEventDrop(s) ==
    /\ s <= nsubs
    /\ ppc[s] \in SendSites
    /\ queue' = [queue EXCEPT ![s] = IF CanSend(s) THEN Append(@, hand[s]) ELSE @]
    /\ hand' = [hand EXCEPT ![s] = NoEv]
    /\ Goto(s, AfterSend(ppc[s]), LeavesConn(ppc[s], AfterSend(ppc[s])))
    /\ UNCHANGED <<cfgVars, lockVars, markVars, srcVars, callVars, nsubs, sctx,
                   safter, sok, np, received, notif, pings, sseVars, nkVars, resVars, uriVars, fwdVars, wsrVars, ownVars>>

\* case eventChan <- confEvent
SendEvent(s) ==
    /\ s <= nsubs
    /\ ppc[s] \in SendSites
    /\ CanSend(s)
    /\ queue' = [queue EXCEPT ![s] = Append(@, hand[s])]
    /\ hand' = [hand EXCEPT ![s] = NoEv]
    /\ Goto(s, AfterSend(ppc[s]), LeavesConn(ppc[s], AfterSend(ppc[s])))
    /\ UNCHANGED <<cfgVars, lockVars, markVars, srcVars, callVars, nsubs, sctx,
                   safter, sok, np, received, notif, pings, sseVars, nkVars, resVars, uriVars, fwdVars, wsrVars, ownVars>>

\* case <-ctx.Done(): the event in hand is abandoned
SendCancelled(s) ==
    /\ s <= nsubs
    /\ ppc[s] \in SendSites
    /\ sctx[s]
    /\ hand' = [hand EXCEPT ![s] = NoEv]
    /\ Goto(s, AfterCancel(ppc[s]), LeavesConn(ppc[s], AfterCancel(ppc[s])))
    /\ UNCHANGED <<ProdFrame, np, notif>>

\* ---- file: watchFile
\* the loop's `if f.closed || f.watcher == nil { return }` under RLock, and
\* the select's case <-ctx.Done() and closed Events / Errors channels
FSelectStop(s) ==
    /\ s <= nsubs
    /\ ppc[s] = "f_select"
    /\ RLockFree
    /\ closed \/ watcher = 0 \/ sctx[s] \/ rstate[s] = "closed"
    /\ Goto(s, "done", FALSE)
    /\ UNCHANGED <<ProdFrame, hand, np, notif>>

\* select: case event := <-watcher.Events; only Write and Create are handled
FSelectEvent(s) ==
    /\ s <= nsubs
    /\ ppc[s] = "f_select"
    /\ RLockFree
    /\ rstate[s] = "open"
    /\ notif[s] # <<>>
    /\ EventsLeft
    /\ notif' = [notif EXCEPT ![s] = Tail(@)]
    /\ Goto(s, IF Head(notif[s]) \in {"add", "update"} THEN "f_read"
               ELSE "f_select", FALSE)
    /\ UNCHANGED <<ProdFrame, hand, np>>

\* after the 10ms settle delay: readFile and NewReadEvent
FRead(s) ==
    /\ s <= nsubs
    /\ ppc[s] = "f_read"
    /\ IF content = Missing THEN MkEv(s, "open", Nil)
                            ELSE MkEv(s, "none", content)
    /\ Goto(s, "f_send", FALSE)
    /\ UNCHANGED <<ProdFrame, notif>>

\* select: case err := <-watcher.Errors
FSelectError(s) ==
    /\ s <= nsubs
    /\ ppc[s] = "f_select"
    /\ RLockFree
    /\ rstate[s] = "open"
    /\ EventsLeft
    /\ MkEv(s, "watcher", Nil)
    /\ Goto(s, "f_send", FALSE)
    /\ UNCHANGED <<ProdFrame, notif>>

\* ---- http: processSSEStream, line by line
\* a line is a sequence of characters
DataPrefix == <<"d", "a", "t", "a", ":">>
Newline    == "\n"

HasPrefix(l, p) == Len(l) >= Len(p) /\ SubSeq(l, 1, Len(p)) = p
TrimPrefix(l, p) == IF HasPrefix(l, p) THEN SubSeq(l, Len(p) + 1, Len(l)) ELSE l

RECURSIVE TrimLeft(_)
TrimLeft(l) == IF l # <<>> /\ Head(l) = " " THEN TrimLeft(Tail(l)) ELSE l
RECURSIVE TrimRight(_)
TrimRight(l) == IF l # <<>> /\ l[Len(l)] = " "
                THEN TrimRight(SubSeq(l, 1, Len(l) - 1)) ELSE l
TrimSpace(l) == TrimRight(TrimLeft(l))

\* `if line == "" || strings.HasPrefix(line, ":") { continue }`
SkipLine(line) == line = <<>> \/ HasPrefix(line, <<":">>)

\* the body of the scanner loop for one line: the new eventData and the
\* payloads emitted (none or one).  The end-of-event branch is the
\* `else if line == ""` of the source, placed after the skip test.
SSEStep(line, buf) ==
    IF SkipLine(line)
    THEN [buf |-> buf, out |-> <<>>]
    ELSE IF HasPrefix(line, DataPrefix)
    THEN LET data == TrimSpace(TrimPrefix(line, DataPrefix))
         IN [buf |-> (IF Len(buf) > 0 THEN Append(buf, Newline) ELSE buf) \o data,
             out |-> <<>>]
    ELSE IF line = <<>>
    THEN IF Len(buf) > 0 THEN [buf |-> <<>>, out |-> <<buf>>]
                         ELSE [buf |-> buf, out |-> <<>>]
    ELSE [buf |-> buf, out |-> <<>>]

\* lines a server can send: blank, comment, data with and without a space,
\* empty data, another SSE field
SSELines == { <<>>,
              <<":", "k">>,
              <<"d", "a", "t", "a", ":", "x">>,
              <<"d", "a", "t", "a", ":", " ", "y">>,
              <<"d", "a", "t", "a", ":">>,
              <<"i", "d", ":", "z">> }

\* some line makes the scanner loop emit an accumulated event
LineCanEmit == \E l \in SSELines : SSEStep(l, <<"x">>).out # <<>>

\* ---- http: subscribeSSE
\* top of the for loop (return if ctx is done), then h.client.Do(req):
\* connection error, non-200 status (body closed at once), or an open stream
HConnect(s) ==
    /\ s <= nsubs
    /\ ppc[s] = "h_top"
    /\ IF sctx[s]
       THEN /\ Goto(s, "done", FALSE)
            /\ UNCHANGED <<hand, np>>
       ELSE \E o \in {"do", "status", "ok"} :
            IF o = "ok"
            THEN /\ ppc' = [ppc EXCEPT ![s] = "h_scan"]
                 /\ rstate' = [rstate EXCEPT ![s] = "open"]
                 /\ rcloses' = [rcloses EXCEPT ![s] = 0]
                 /\ UNCHANGED <<qcloses, hand, np>>
            ELSE /\ EventsLeft
                 /\ MkEv(s, o, Nil)
                 /\ Goto(s, "h_send_conn", FALSE)
    /\ UNCHANGED <<ProdFrame, notif>>

\* the waits before reconnecting:
\* select { case <-ctx.Done(): return; case <-time.After(RetryDelay): }
ReconnectWaits == {"h_wait", "w_wait"}

WaitCancelled(s) ==
    /\ s <= nsubs
    /\ ppc[s] \in ReconnectWaits
    /\ sctx[s]
    /\ Goto(s, "done", FALSE)
    /\ UNCHANGED <<ProdFrame, hand, np, notif>>

WaitTimer(s) ==
    /\ s <= nsubs
    /\ ppc[s] \in ReconnectWaits
    /\ ~sctx[s] \/ retryDelay = 0
    /\ Goto(s, IF ppc[s] = "h_wait" THEN "h_top" ELSE "w_top", FALSE)
    /\ UNCHANGED <<ProdFrame, hand, np, notif>>

\* scanner.Scan() returned a line: ctx check (return, body closed), then
\* the loop body
HScanLine(s) ==
    /\ s <= nsubs
    /\ ppc[s] = "h_scan"
    /\ IF sctx[s]
       THEN /\ Goto(s, "h_wait", TRUE)
            /\ UNCHANGED <<hand, np>>
       ELSE IF LineCanEmit /\ EventsLeft
       THEN /\ \E v \in Contents : MkEv(s, "none", v)
            /\ Goto(s, "h_send_data", FALSE)
       ELSE UNCHANGED <<ppc, qcloses, rstate, rcloses, hand, np>>
    /\ UNCHANGED <<ProdFrame, notif>>

\* scanner.Scan() returned false: clean end of stream (body closed), or a
\* read error (always an error once the context is cancelled) reported as
\* an event
HScanEnd(s) ==
    /\ s <= nsubs
    /\ ppc[s] = "h_scan"
    /\ \E clean \in (IF sctx[s] THEN {FALSE} ELSE BOOLEAN) :
        IF clean
        THEN /\ Goto(s, "h_wait", TRUE)
             /\ UNCHANGED <<hand, np>>
        ELSE /\ EventsLeft \/ sctx[s]
             /\ MkEv(s, "stream", Nil)
             /\ Goto(s, "h_send_stream", FALSE)
    /\ UNCHANGED <<ProdFrame, notif>>

\* ---- ws: subscribeWS / handleWSConnection
\* close codes of the websocket package, by name
CloseNormalClosure     == "CloseNormalClosure"
CloseGoingAway         == "CloseGoingAway"
CloseAbnormalClosure   == "CloseAbnormalClosure"
CloseInternalServerErr == "CloseInternalServerErr"
NetError == "net"     \* a read error that is not a *websocket.CloseError

\* websocket.IsUnexpectedCloseError(err, CloseGoingAway, CloseAbnormalClosure):
\* true for a close error whose code is not one of the listed codes
IsUnexpectedCloseError(code) ==
    /\ code # NetError
    /\ code \notin {CloseGoingAway, CloseAbnormalClosure}

ReadErrors == {NetError, CloseNormalClosure, CloseGoingAway,
               CloseAbnormalClosure, CloseInternalServerErr}

\* top of the for loop (return if ctx is done), then DialContext; on
\* success the pong handler, the ticker and the ping goroutine are set up
WConnect(s) ==
    /\ s <= nsubs
    /\ ppc[s] = "w_top"
    /\ IF sctx[s]
       THEN /\ Goto(s, "done", FALSE)
            /\ UNCHANGED <<hand, np, pings>>
       ELSE \E ok \in BOOLEAN :
            IF ok
            THEN /\ PingsLeft
                 /\ ppc' = [ppc EXCEPT ![s] = "w_read"]
                 /\ rstate' = [rstate EXCEPT ![s] = "open"]
                 /\ rcloses' = [rcloses EXCEPT ![s] = 0]
                 /\ pings' = [pings EXCEPT ![s] = @ + 1]
                 /\ UNCHANGED <<qcloses, hand, np>>
            ELSE /\ EventsLeft
                 /\ MkEv(s, "dial", Nil)
                 /\ Goto(s, "w_send_dial", FALSE)
                 /\ UNCHANGED pings
    /\ UNCHANGED <<cfgVars, lockVars, markVars, srcVars, callVars, nsubs, sctx,
                   safter, sok, queue, received, notif, sseVars, nkVars, resVars, uriVars, fwdVars, wsrVars, ownVars>>

\* top of the read loop: select { case <-ctx.Done(): return; default: }
WLoopCancelled(s) ==
    /\ s <= nsubs
    /\ ppc[s] = "w_read"
    /\ sctx[s]
    /\ Goto(s, "w_wait", TRUE)
    /\ UNCHANGED <<ProdFrame, hand, np, notif>>

\* conn.ReadMessage() delivers a message
WReadMessage(s) ==
    /\ s <= nsubs
    /\ ppc[s] = "w_read"
    /\ EventsLeft
    /\ \E v \in Contents : MkEv(s, "none", v)
    /\ Goto(s, "w_send_msg", FALSE)
    /\ UNCHANGED <<ProdFrame, notif>>

\* conn.ReadMessage() fails: a close frame, a dropped connection
\* (reported by the library as close code 1006), or a deadline / net error
WReadErrorWith(s, code) ==
    /\ s <= nsubs
    /\ ppc[s] = "w_read"
    /\ IF IsUnexpectedCloseError(code)
       THEN /\ EventsLeft
            /\ MkEv(s, "wsRead", Nil)
            /\ Goto(s, "w_send_err", FALSE)
       ELSE /\ Goto(s, "w_wait", TRUE)
            /\ UNCHANGED <<hand, np>>
    /\ UNCHANGED <<ProdFrame, notif>>

WReadError(s) == \E code \in ReadErrors : WReadErrorWith(s, code)

\* a ping goroutine ends: on ctx.Done(), or when WriteMessage fails
PingExit(s) ==
    /\ s <= nsubs
    /\ pings[s] > 0
    /\ pings' = [pings EXCEPT ![s] = @ - 1]
    /\ UNCHANGED <<cfgVars, lockVars, markVars, srcVars, callVars, nsubs, ppc,
                   sctx, safter, sok, queue, qcloses, hand, np, received,
                   rstate, rcloses, notif, sseVars, nkVars, resVars, uriVars, fwdVars, wsrVars, ownVars>>

\* ---- redis: subscribeKeyspace
\* the message channel of a pubsub is closed once the pubsub or the
\* client is closed
PubSubClosed(s) == rstate[s] = "closed" \/ clientCloses > 0

\* outcomes of r.fetch(ctx) made by the producer
ProdFetchOutcomes(s) ==
    IF sctx[s] \/ clientCloses > 0 THEN {"get"}
    ELSE {"get"} \cup (IF content = Missing THEN {"notFound"} ELSE {"ok"})

\* the initial read creates an event only when it succeeds
InitOutcomes(s) == IF EventsLeft THEN ProdFetchOutcomes(s) ELSE {"get"}

\* PSubscribe, and the non-blocking store of the handle in r.subsChan
RPSubscribe(s) ==
    /\ s <= nsubs
    /\ ppc[s] = "r_psub"
    /\ rstate' = [rstate EXCEPT ![s] = "open"]
    /\ rcloses' = [rcloses EXCEPT ![s] = 0]
    /\ subsChan' = IF Len(subsChan) < SubsChanCap THEN Append(subsChan, s)
                   ELSE subsChan
    /\ ppc' = [ppc EXCEPT ![s] = "r_init"]
    /\ UNCHANGED <<cfgVars, lockVars, watcher, informer, stopCh, clientCloses,
                   srcVars, callVars, nsubs, sctx, safter, sok, queue, qcloses,
                   hand, np, received, notif, pings, sseVars, nkVars, resVars, uriVars, fwdVars, wsrVars, ownVars>>

\* the initial read: an event only if the fetch succeeds
RInit(s) ==
    /\ s <= nsubs
    /\ ppc[s] = "r_init"
    /\ \E o \in InitOutcomes(s) :
        IF o = "ok"
        THEN /\ MkEv(s, "none", content)
             /\ Goto(s, "r_send_init", FALSE)
        ELSE /\ Goto(s, "r_listen", FALSE)
             /\ UNCHANGED <<hand, np>>
    /\ UNCHANGED <<ProdFrame, notif>>

\* select: case <-ctx.Done(), or the message channel is closed
RListenStop(s) ==
    /\ s <= nsubs
    /\ ppc[s] = "r_listen"
    /\ sctx[s] \/ PubSubClosed(s)
    /\ Goto(s, "done", FALSE)
    /\ UNCHANGED <<ProdFrame, hand, np, notif>>

\* select: case msg := <-ch
RListenMsg(s) ==
    /\ s <= nsubs
    /\ ppc[s] = "r_listen"
    /\ ~PubSubClosed(s)
    /\ notif[s] # <<>>
    /\ EventsLeft
    /\ notif' = [notif EXCEPT ![s] = Tail(@)]
    /\ Goto(s, "r_fetch", FALSE)
    /\ UNCHANGED <<ProdFrame, hand, np>>

\* the re-fetch a notification triggers; its outcome becomes an event
RFetch(s) ==
    /\ s <= nsubs
    /\ ppc[s] = "r_fetch"
    /\ \E o \in ProdFetchOutcomes(s) :
        IF o = "ok" THEN MkEv(s, "none", content) ELSE MkEv(s, o, Nil)
    /\ Goto(s, "r_send", FALSE)
    /\ UNCHANGED <<ProdFrame, notif>>

\* ---- k8s: the informer's handler goroutine
MaxOther == 1    \* pending notifications about other resources

\* the informer lists and watches every resource of the kind in the
\* namespace (informers.WithNamespace, no selector on the name): what it
\* is sent when a resource other than the named one changes
OtherOps == {"otherAdd", "otherUpdate", "otherDelete"}

\* a resource of the same kind and namespace, other than the named one, is
\* added, updated or deleted
OtherResource(op) ==
    /\ kind = "k8s"
    /\ \E s \in Subs : Watching(s)
    /\ \A s \in Subs : Watching(s) => Len(notif[s]) < MaxOther
    /\ notif' = [s \in Subs |-> IF Watching(s) THEN Append(notif[s], op)
                                             ELSE notif[s]]
    /\ UNCHANGED <<cfgVars, lockVars, markVars, srcVars, callVars, nsubs, ppc,
                   sctx, safter, sok, queue, qcloses, hand, np, received,
                   rstate, rcloses, pings, sseVars, nkVars, resVars, uriVars,
                   fwdVars, wsrVars, ownVars>>

\* the error DeleteFunc puts in its event: the repository holds two copies
\* of the reader, one passing fmt.Errorf("%s deleted", ...) and one nil
DeleteErrors == {"deleted", "none"}

\* the informer calls AddFunc / UpdateFunc / DeleteFunc for the next
\* notification, whichever object of the namespace it is about; DeleteFunc
\* builds its event at once
KHandle(s) ==
    /\ s <= nsubs
    /\ ppc[s] = "k_idle"
    /\ rstate[s] = "open"
    /\ notif[s] # <<>>
    /\ EventsLeft
    /\ notif' = [notif EXCEPT ![s] = Tail(@)]
    /\ IF Head(notif[s]) \in {"delete", "otherDelete"}
       THEN /\ \E e \in DeleteErrors : MkEv(s, e, Nil)
            /\ Goto(s, "k_send", FALSE)
       ELSE /\ Goto(s, "k_sleep", FALSE)
            /\ UNCHANGED <<hand, np>>
    /\ UNCHANGED ProdFrame

\* handleResourceUpdate after its 100ms sleep: k.Read(ctx) up to the Get
KReadBegin(s) ==
    /\ s <= nsubs
    /\ ppc[s] = "k_sleep"
    /\ RLockFree
    /\ IF ClosedCheck
       THEN /\ MkEv(s, "closed", Nil)
            /\ ppc' = [ppc EXCEPT ![s] = "k_send"]
            /\ UNCHANGED rlocks
       ELSE IF sctx[s]
       THEN /\ MkEv(s, "ctxCanceled", Nil)
            /\ ppc' = [ppc EXCEPT ![s] = "k_send"]
            /\ UNCHANGED rlocks
       ELSE /\ rlocks' = rlocks + 1
            /\ ppc' = [ppc EXCEPT ![s] = "k_get"]
            /\ UNCHANGED <<hand, np>>
    /\ UNCHANGED <<cfgVars, closed, wlock, closeDone, markVars, srcVars,
                   callVars, nsubs, sctx, safter, sok, queue, qcloses,
                   received, rstate, rcloses, notif, pings, sseVars, nkVars, resVars, uriVars, fwdVars, wsrVars, ownVars>>

\* the Get of readConfigMap / readSecret, made with the read lock held
KGet(s) ==
    /\ s <= nsubs
    /\ ppc[s] = "k_get"
    /\ rlocks' = rlocks - 1
    /\ \E o \in (IF sctx[s] \/ content = Missing THEN {"get"} ELSE {"get", "ok"}) :
        IF o = "ok" THEN MkEv(s, "none", content) ELSE MkEv(s, o, Nil)
    /\ ppc' = [ppc EXCEPT ![s] = "k_send"]
    /\ UNCHANGED <<cfgVars, closed, wlock, closeDone, markVars, srcVars,
                   callVars, nsubs, sctx, safter, sok, queue, qcloses,
                   received, rstate, rcloses, notif, pings, sseVars, nkVars, resVars, uriVars, fwdVars, wsrVars, ownVars>>

\* ------------------------------------------------------------ SSE stream
MaxLines == 3     \* lines of one event stream

\* the scanner loop of processSSEStream over a whole stream
SSEScan ==
    /\ ~sseDone
    /\ pos <= Len(stream)
    /\ LET r == SSEStep(stream[pos], eventData)
       IN /\ eventData' = r.buf
          /\ emitted' = emitted \o r.out
    /\ pos' = pos + 1
    /\ UNCHANGED <<cfgVars, lockVars, markVars, srcVars, callVars, subVars,
                   stream, sseDone, nkVars, resVars, uriVars, fwdVars, wsrVars, ownVars>>

\* scanner.Scan() returns false at the end of the stream
SSEEnd ==
    /\ ~sseDone
    /\ pos > Len(stream)
    /\ sseDone' = TRUE
    /\ UNCHANGED <<cfgVars, lockVars, markVars, srcVars, callVars, subVars,
                   stream, pos, eventData, emitted, nkVars, resVars, uriVars, fwdVars, wsrVars, ownVars>>

\* ------------------------------------------------------------ keyspace flags
\* flag characters of notify-keyspace-events: keyspace events, keyevent
\* events, two command classes, and "A", the server's alias for every
\* command class
NotifyFlags == {"K", "E", "s", "$", "A"}

\* the value CONFIG GET returns (config.Val()[1]) for a setting: the server
\* reports "A" in place of the class characters it stands for
Render(f) == IF "A" \in f THEN f \ {"s", "$"} ELSE f

\* needsKeyspace := !strings.Contains(currentConfig, "K")
NeedsKeyspace(c) == "K" \notin c
\* needsCommands := !Contains(currentConfig, "s") && !Contains(currentConfig, "$")
NeedsCommands(c) == "s" \notin c /\ "$" \notin c

\* newConfig: currentConfig with "K" and "$" appended where needed
NewConfig(c) == c \cup (IF NeedsKeyspace(c) THEN {"K"} ELSE {})
                  \cup (IF NeedsCommands(c) THEN {"$"} ELSE {})

\* CONFIG GET notify-keyspace-events, and the decision to patch
EnsureGet ==
    /\ epc = "get"
    /\ \E ok \in BOOLEAN :
        IF ok
        THEN /\ cur' = flags
             /\ IF NeedsKeyspace(flags) \/ NeedsCommands(flags)
                THEN epc' = "set" /\ UNCHANGED eres
                ELSE epc' = "done" /\ eres' = "nil"
        ELSE /\ epc' = "done"
             /\ eres' = "configGet"
             /\ UNCHANGED cur
    /\ UNCHANGED <<cfgVars, lockVars, markVars, srcVars, callVars, subVars,
                   sseVars, flags, resVars, uriVars, fwdVars, wsrVars, ownVars>>

\* CONFIG SET notify-keyspace-events newConfig
EnsureSet ==
    /\ epc = "set"
    /\ epc' = "done"
    /\ \E ok \in BOOLEAN :
        IF ok
        THEN flags' = Render(NewConfig(cur)) /\ eres' = "nil"
        ELSE eres' = "configSet" /\ UNCHANGED flags
    /\ UNCHANGED <<cfgVars, lockVars, markVars, srcVars, callVars, subVars,
                   sseVars, cur, resVars, uriVars, fwdVars, wsrVars, ownVars>>

\* another client of the server turns a flag on
OtherClientSet(f) ==
    /\ epc # "done"
    /\ Render(flags \cup {f}) # flags
    /\ flags' = Render(flags \cup {f})
    /\ UNCHANGED <<cfgVars, lockVars, markVars, srcVars, callVars, subVars,
                   sseVars, cur, epc, eres, resVars, uriVars, fwdVars, wsrVars, ownVars>>

\* a later Subscribe, on this or another reader instance, begins
EnsureAgain ==
    /\ epc = "done"
    /\ epc' = "get"
    /\ UNCHANGED <<cfgVars, lockVars, markVars, srcVars, callVars, subVars,
                   sseVars, flags, cur, eres, resVars, uriVars, fwdVars, wsrVars, ownVars>>

\* ------------------------------------------------------------ loader subscription
MaxFwd == 2      \* events the reader sends on its channel

\* ConfEvent: err "none" is a nil error, NoConfig a nil Config
NoConfig == <<>>
ConfEv(e, c) == [err |-> e, config |-> c]

\* the *T that a successful decode of payload d yields
Decoded(d) == <<"Config", d>>

\* errors of the events a reader sends
EventErrors == {"none", "open", "watcher"}
ReadEvents == {Ev(0, e, d) : e \in EventErrors, d \in {Nil, 0} \cup Contents}

\* how the three decoding steps go for a payload: all succeed, or
\* Unmarshal, mapstructure.NewDecoder or mapDecoder.Decode fails
Outcomes == {"ok", "unmarshal", "newDecoder", "mapDecode"}

\* c.decode(): the error it returns
decode(raw, o) ==
    IF raw = Nil \/ raw = 0 THEN "noData"
    ELSE IF o = "unmarshal" THEN "unmarshal"
    ELSE "none"

ForwardAnyData(event, o) ==
    IF event.data > 0
    THEN IF decode(event.data, o) # "none"
         THEN ConfEv(decode(event.data, o), NoConfig)
         ELSE IF o \in {"newDecoder", "mapDecode"}
         THEN ConfEv(o, NoConfig)
         ELSE ConfEv("none", Decoded(event.data))
    ELSE ConfEv(event.err, NoConfig)

\* the ConfEvent the goroutine builds from a reader event
Forward(event, o) ==
    IF IsValid(event)
    THEN IF decode(event.data, o) # "none"
         THEN ConfEv(decode(event.data, o), NoConfig)
         ELSE IF o \in {"newDecoder", "mapDecode"}
         THEN ConfEv(o, NoConfig)
         ELSE ConfEv("none", Decoded(event.data))
    ELSE ConfEv(event.err, NoConfig)

FwdFrame == <<cfgVars, lockVars, markVars, srcVars, callVars, subVars,
              sseVars, nkVars, resVars, uriVars, wsrVars, ownVars>>

\* the reader sends an event on its channel
ReaderSend ==
    /\ ~eventClosed
    /\ fsent < MaxFwd
    /\ Len(eventChan) < QueueDepth
    /\ \E e \in ReadEvents : eventChan' = Append(eventChan, e)
    /\ fsent' = fsent + 1
    /\ UNCHANGED <<FwdFrame, eventClosed, confEventChan, confClosed, fpc,
                   fprev, fdec, confEvent, rawData>>

\* the reader closes its channel
ReaderClose ==
    /\ ~eventClosed
    /\ eventClosed' = TRUE
    /\ UNCHANGED <<FwdFrame, eventChan, confEventChan, confClosed, fpc,
                   fprev, fdec, confEvent, rawData, fsent>>

\* case event, ok := <-eventChan with ok: build the ConfEvent
ForwardEvent ==
    /\ fpc = "select"
    /\ Len(eventChan) > 0
    /\ \E o \in Outcomes :
         /\ fdec' = o
         /\ confEvent' = Forward(Head(eventChan), o)
    /\ fprev' = Head(eventChan)
    /\ rawData' = IF IsValid(Head(eventChan)) THEN Head(eventChan).data
                                               ELSE rawData
    /\ eventChan' = Tail(eventChan)
    /\ fpc' = "send"
    /\ UNCHANGED <<FwdFrame, eventClosed, confEventChan, confClosed, fsent>>

\* confEventChan <- confEvent
ForwardSend ==
    /\ fpc = "send"
    /\ Len(confEventChan) < 1
    /\ confEventChan' = Append(confEventChan, confEvent)
    /\ fpc' = "select"
    /\ UNCHANGED <<FwdFrame, eventChan, eventClosed, confClosed, fprev, fdec,
                   confEvent, rawData, fsent>>

\* case event, ok := <-eventChan with !ok: return, the deferred close runs
ForwardClosed ==
    /\ fpc = "select"
    /\ Len(eventChan) = 0
    /\ eventClosed
    /\ fpc' = "done"
    /\ confClosed' = TRUE
    /\ UNCHANGED <<FwdFrame, eventChan, eventClosed, confEventChan, fprev,
                   fdec, confEvent, rawData, fsent>>

\* case <-ctx.Done(): return, the deferred close runs
ForwardCancelled ==
    /\ fpc = "select"
    /\ fpc' = "done"
    /\ confClosed' = TRUE
    /\ UNCHANGED <<FwdFrame, eventChan, eventClosed, confEventChan, fprev,
                   fdec, confEvent, rawData, fsent>>

\* the caller receives from the channel SubscribeCtx returned
ConfReceive ==
    /\ Len(confEventChan) > 0
    /\ confEventChan' = Tail(confEventChan)
    /\ UNCHANGED <<FwdFrame, eventChan, eventClosed, confClosed, fpc, fprev,
                   fdec, confEvent, rawData, fsent>>

\* no subscription through the loader
NoForward ==
    /\ eventChan = <<>>
    /\ eventClosed = TRUE
    /\ confEventChan = <<>>
    /\ confClosed = TRUE
    /\ fpc = "done"
    /\ fprev = NoEv
    /\ fdec = "none"
    /\ confEvent = ConfEv("none", NoConfig)
    /\ rawData = Nil
    /\ fsent = 0

\* ------------------------------------------------------------ loader readers
MaxReaders == 3  \* readers one ConfOpt constructs

\* no reader constructed through the loader
NoOwn ==
    /\ readers = <<>>
    /\ creader = 0
    /\ lclosed = FALSE

\* a reader as NewReader returns it
NewRd == [closed |-> FALSE, subscribed |-> FALSE]

\* how LoadCtx ends: reader.NewReader fails, a later step (readData,
\* decode, mapstructure) fails, or the configuration is returned
LoadOutcomes == {"newReader", "readData", "ok"}

\* parseUri: c.reader, err = reader.NewReader(...); the reader c.reader
\* held before is neither closed nor kept
parseUri(o) ==
    IF o = "newReader"
    THEN /\ creader' = 0
         /\ UNCHANGED readers
    ELSE /\ readers' = Append(readers, NewRd)
         /\ creader' = Len(readers) + 1

\* ConfOpt.LoadCtx
LoadCtx ==
    /\ Len(readers) < MaxReaders
    /\ \E o \in LoadOutcomes : parseUri(o)
    /\ lclosed' = FALSE
    /\ UNCHANGED <<cfgVars, lockVars, markVars, srcVars, callVars, subVars,
                   sseVars, nkVars, resVars, uriVars, fwdVars, wsrVars>>

\* ConfOpt.SubscribeCtx up to the return of c.reader.Subscribe: c.Load(),
\* then a subscription on the reader that Load has just constructed
SubscribeCtx ==
    /\ Len(readers) < MaxReaders
    /\ \E o \in LoadOutcomes, ok \in BOOLEAN :
         IF o = "ok" /\ ok
         THEN /\ readers' = Append(readers, [NewRd EXCEPT !.subscribed = TRUE])
              /\ creader' = Len(readers) + 1
         ELSE parseUri(o)
    /\ lclosed' = FALSE
    /\ UNCHANGED <<cfgVars, lockVars, markVars, srcVars, callVars, subVars,
                   sseVars, nkVars, resVars, uriVars, fwdVars, wsrVars>>

\* ConfOpt.Close: if c.reader != nil { return c.reader.Close() }
ConfClose ==
    /\ readers' = IF creader # 0
                  THEN [readers EXCEPT ![creader].closed = TRUE]
                  ELSE readers
    /\ lclosed' = TRUE
    /\ UNCHANGED <<cfgVars, lockVars, markVars, srcVars, callVars, subVars,
                   sseVars, nkVars, resVars, uriVars, fwdVars, wsrVars,
                   creader>>

\* ------------------------------------------------------------ k8s key resolution
MaxKeys == 3      \* key names a resource can hold

KeyNames == 1..MaxKeys
NoKey    == 0     \* k.key == ""

\* Data of a resource: a map from some key names to values
DataMaps == UNION { [ks -> Contents] : ks \in SUBSET KeyNames }

\* (nil, err) results of readConfigMap / readSecret; keys is the key list
\* the multiple-keys error prints
ResErr(t, ks) == [tag |-> t, data |-> Nil, keys |-> ks]
ResOk(v)      == [tag |-> "ok", data |-> v, keys |-> {}]
NoOut         == [tag |-> "none", data |-> Nil, keys |-> {}]

\* variant: without a selector the first key's value is returned whenever
\* the resource has any key
ResolveKeyFirst(rk, data, key) ==
    IF key # NoKey
    THEN IF key \in DOMAIN data THEN ResOk(data[key])
         ELSE ResErr("keyNotFound", {})
    ELSE IF Cardinality(DOMAIN data) = 0 THEN ResErr("empty", {})
    ELSE ResOk(data[CHOOSE k \in DOMAIN data : TRUE])

\* the part of readConfigMap / readSecret after the Get: the two methods
\* differ only in the value type (string converted to []byte, or []byte)
ResolveKey(rk, data, key) ==
    IF key # NoKey
    THEN IF key \in DOMAIN data THEN ResOk(data[key])
         ELSE ResErr("keyNotFound", {})
    ELSE IF Cardinality(DOMAIN data) = 0 THEN ResErr("empty", {})
    ELSE IF Cardinality(DOMAIN data) = 1
         THEN ResOk(data[CHOOSE k \in DOMAIN data : TRUE])
    ELSE ResErr("multipleKeys", DOMAIN data)

\* Read of a fetched resource
Resolve ==
    /\ resOut = NoOut
    /\ resOut' = ResolveKey(resKind, resData, resKey)
    /\ UNCHANGED <<cfgVars, lockVars, markVars, srcVars, callVars, subVars,
                   sseVars, nkVars, resKind, resData, resKey, uriVars, fwdVars, wsrVars, ownVars>>

\* ------------------------------------------------------------ URI registry
MaxURI == 3       \* characters of a URI

\* a URI is a sequence of characters; a run of scheme letters is one
\* character, named after the scheme it spells
SchemeFile    == <<"file">>
SchemeDefault == <<>>
SchemeHTTP    == <<"http">>
Letters == {"file", "http", "x"}
URIChars == Letters \cup {":", "/", " "}
URIs == UNION {[1..n -> URIChars] : n \in 0..MaxURI}

\* the RegisterReader calls of the packages' init functions, in order
Registrations == <<SchemeFile, SchemeDefault, SchemeHTTP>>

\* RegisterReader: an empty scheme is refused (the caller drops the error)
RegisterReader(reg, scheme) ==
    IF scheme = <<>> THEN reg ELSE reg \cup {scheme}

\* url.Parse, getScheme: letters up to the first ':'; a ':' in first place
\* is an error; any other character means there is no scheme
RECURSIVE GetScheme(_, _)
GetScheme(u, i) ==
    IF i > Len(u) THEN [err |-> FALSE, scheme |-> <<>>, rest |-> u]
    ELSE IF u[i] \in Letters THEN GetScheme(u, i + 1)
    ELSE IF u[i] = ":"
    THEN IF i = 1 THEN [err |-> TRUE, scheme |-> <<>>, rest |-> u]
         ELSE [err |-> FALSE, scheme |-> SubSeq(u, 1, i - 1),
               rest |-> SubSeq(u, i + 1, Len(u))]
    ELSE [err |-> FALSE, scheme |-> <<>>, rest |-> u]

\* strings.Cut(rest, "/"): the part before the first "/"
RECURSIVE FirstSegment(_)
FirstSegment(r) ==
    IF r = <<>> \/ Head(r) = "/" THEN <<>>
    ELSE <<Head(r)>> \o FirstSegment(Tail(r))

Contains(l, ch) == \E i \in 1..Len(l) : l[i] = ch

\* url.Parse: the scheme, then the rest; without a scheme the first path
\* segment cannot contain a colon, and a host cannot contain a space
Parse(u) ==
    LET g == GetScheme(u, 1)
        authority == IF HasPrefix(g.rest, <<"/", "/">>)
                        /\ ~HasPrefix(g.rest, <<"/", "/", "/">>)
                     THEN FirstSegment(SubSeq(g.rest, 3, Len(g.rest)))
                     ELSE <<>>
    IN IF g.err THEN g
       ELSE IF ~HasPrefix(g.rest, <<"/">>) /\ g.scheme = <<>>
               /\ Contains(FirstSegment(g.rest), ":")
       THEN [g EXCEPT !.err = TRUE]
       ELSE IF Contains(authority, " ") THEN [g EXCEPT !.err = TRUE]
       ELSE g

\* reader.ParseURI: blank, malformed, no scheme, unregistered scheme
ParseURI(reg, u) ==
    IF TrimSpace(u) = <<>> THEN "emptyURI"
    ELSE IF Parse(u).err THEN "invalidFormat"
    ELSE IF Parse(u).scheme = <<>> THEN "missingScheme"
    ELSE IF Parse(u).scheme \notin reg THEN "unsupportedScheme"
    ELSE "ok"

\* variant: the constructor is called a second time
GetReaderTwice(reg, scheme) ==
    IF scheme \in reg THEN <<scheme, scheme>> ELSE <<>>

\* GetReader: the constructors it calls for a scheme (none if the scheme
\* has no entry)
GetReader(reg, scheme) ==
    IF scheme \in reg THEN <<scheme>> ELSE <<>>

\* NewFileReader: filePath is u.Path, or Join(u.Host, u.Path)
FilePathEmpty(u) ==
    LET rest == Parse(u).rest
    IN ~HasPrefix(rest, <<"/">>) \/ rest = <<"/", "/">>

\* one init() registration
Register ==
    /\ ridx <= Len(Registrations)
    /\ registry' = RegisterReader(registry, Registrations[ridx])
    /\ ridx' = ridx + 1
    /\ UNCHANGED <<cfgVars, lockVars, markVars, srcVars, callVars, subVars,
                   sseVars, nkVars, resVars, uri, entry, fexists, upc, uout,
                   invoked, stats, fwdVars, wsrVars, ownVars>>

\* reader.NewReader(uri): ParseURI, then GetReader
NewReader ==
    /\ ridx > Len(Registrations)
    /\ entry = "NewReader" /\ upc = "idle"
    /\ LET r == ParseURI(registry, uri)
           called == GetReader(registry, Parse(uri).scheme)
       IN IF r # "ok"
          THEN /\ uout' = r /\ upc' = "done"
               /\ UNCHANGED invoked
          ELSE /\ invoked' = invoked \o called
               /\ IF called = <<>>
                  THEN uout' = "unsupportedScheme" /\ upc' = "done"
                  ELSE upc' = "ctor" /\ UNCHANGED uout
    /\ UNCHANGED <<cfgVars, lockVars, markVars, srcVars, callVars, subVars,
                   sseVars, nkVars, resVars, registry, ridx, uri, entry,
                   fexists, stats, fwdVars, wsrVars, ownVars>>

\* NewFileReader(uri) up to os.Stat: ParseURI, scheme test, path test
NewFileReader ==
    /\ ridx > Len(Registrations)
    /\ \/ entry = "NewFileReader" /\ upc = "idle"
       \/ upc = "ctor" /\ Head(invoked) = SchemeFile
    /\ LET r == ParseURI(registry, uri)
       IN IF r # "ok" THEN uout' = r /\ upc' = "done"
          ELSE IF Parse(uri).scheme \notin {SchemeFile, SchemeDefault}
          THEN uout' = "wrongScheme" /\ upc' = "done"
          ELSE IF FilePathEmpty(uri)
          THEN uout' = "emptyPath" /\ upc' = "done"
          ELSE upc' = "stat" /\ UNCHANGED uout
    /\ UNCHANGED <<cfgVars, lockVars, markVars, srcVars, callVars, subVars,
                   sseVars, nkVars, resVars, registry, ridx, uri, entry,
                   fexists, invoked, stats, fwdVars, wsrVars, ownVars>>

\* NewFileReader: os.Stat(filePath) and the result
Stat ==
    /\ upc = "stat"
    /\ stats' = stats + 1
    /\ uout' = IF fexists THEN "reader" ELSE "fileAccess"
    /\ upc' = "done"
    /\ UNCHANGED <<cfgVars, lockVars, markVars, srcVars, callVars, subVars,
                   sseVars, nkVars, resVars, registry, ridx, uri, entry,
                   fexists, invoked, fwdVars, wsrVars, ownVars>>

\* NewHTTPReader(uri): ParseURI, scheme test; a client is built, nothing
\* is sent
NewHTTPReader ==
    /\ upc = "ctor" /\ Head(invoked) = SchemeHTTP
    /\ LET r == ParseURI(registry, uri)
       IN uout' = IF r # "ok" THEN r ELSE "reader"
    /\ upc' = "done"
    /\ UNCHANGED <<cfgVars, lockVars, markVars, srcVars, callVars, subVars,
                   sseVars, nkVars, resVars, registry, ridx, uri, entry,
                   fexists, invoked, stats, fwdVars, wsrVars, ownVars>>

\* ------------------------------------------------------------ specification
\* a reader as its constructor returns it, no call made yet
InitReader ==
    /\ closed = FALSE
    /\ wlock = FALSE
    /\ rlocks = 0
    /\ closeDone = FALSE
    /\ watcher = 0
    /\ informer = 0
    /\ stopCh = 0
    /\ subsChan = <<>>
    /\ clientCloses = 0
    /\ changes = 0
    /\ cpc = [c \in Callers |-> "idle"]
    /\ cop = [c \in Callers |-> "none"]
    /\ cctx = [c \in Callers |-> FALSE]
    /\ cpre = [c \in Callers |-> FALSE]
    /\ cres = [c \in Callers |-> NoRes]
    /\ catt = [c \in Callers |-> 0]
    /\ chits = [c \in Callers |-> 0]
    /\ clast = [c \in Callers |-> "none"]
    /\ cresp = [c \in Callers |-> <<>>]
    /\ cafter = [c \in Callers |-> FALSE]
    /\ cslot = [c \in Callers |-> 0]
    /\ nsubs = 0
    /\ ppc = [s \in Subs |-> "none"]
    /\ sctx = [s \in Subs |-> FALSE]
    /\ safter = [s \in Subs |-> FALSE]
    /\ sok = [s \in Subs |-> FALSE]
    /\ queue = [s \in Subs |-> <<>>]
    /\ qcloses = [s \in Subs |-> 0]
    /\ hand = [s \in Subs |-> NoEv]
    /\ np = [s \in Subs |-> 0]
    /\ received = [s \in Subs |-> <<>>]
    /\ rstate = [s \in Subs |-> "none"]
    /\ rcloses = [s \in Subs |-> 0]
    /\ notif = [s \in Subs |-> <<>>]
    /\ pings = [s \in Subs |-> 0]

NoStream ==
    /\ stream = <<>>
    /\ pos = 1
    /\ eventData = <<>>
    /\ emitted = <<>>
    /\ sseDone = TRUE

NoNotify ==
    /\ flags = {}
    /\ cur = {}
    /\ epc = "done"
    /\ eres = "nil"

NoResolve ==
    /\ resKind = "configmap"
    /\ resData = <<>>
    /\ resKey = NoKey
    /\ resOut = ResErr("empty", {})

NoURI ==
    /\ registry = {}
    /\ ridx = Len(Registrations) + 1
    /\ uri = <<>>
    /\ entry = "none"
    /\ fexists = FALSE
    /\ upc = "done"
    /\ uout = "none"
    /\ invoked = <<>>
    /\ stats = 0

\* retry counts the constructors accept: parseQueryConfig rejects
\* retry_attempts < 1 (http, ws); parseRedisURI rejects max_retries < 0
RetryRange(k) == IF k = "redis" THEN 0..MaxRetry ELSE 1..MaxRetry

\* several subscriptions: the reader is configured with retry_attempts=1
\* (max_retries=1), the caller subscribes up to MaxSubs times and the
\* sources cause one event
Init ==
    /\ kind \in Kinds
    /\ retryAttempts = 1
    /\ retryDelay = 1
    /\ slots = MaxSubs
    /\ budget = 1
    /\ content \in (IF kind = "file" THEN {1} ELSE {1, Missing})
    /\ InitReader
    /\ NoStream
    /\ NoNotify
    /\ NoResolve
    /\ NoURI
    /\ NoForward
    /\ NoWSRead
    /\ NoOwn

Next ==
    \/ \E c \in Callers : Close(c)
    \/ \E c \in Callers : Return(c)
    \/ \E c \in Callers : ReadBegin(c)
    \/ \E c \in Callers : ReadFetch(c)
    \/ \E c \in Callers : CancelCall(c)
    \/ \E c \in Callers : SubscribeBegin(c)
    \/ \E c \in Callers : SubscribeEnsure(c)
    \/ \E c \in Callers : SubscribeSync(c)
    \/ \E s \in Subs : CancelSub(s)
    \/ \E v \in Contents \cup {Missing} : Change(v)
    \/ \E s \in Subs : Recv(s)
    \/ \E s \in Subs : SendEvent(s)
    \/ \E s \in Subs : SendCancelled(s)
    \/ \E s \in Subs : FSelectStop(s)
    \/ \E s \in Subs : FSelectEvent(s)
    \/ \E s \in Subs : FRead(s)
    \/ \E s \in Subs : FSelectError(s)
    \/ \E s \in Subs : HConnect(s)
    \/ \E s \in Subs : WaitCancelled(s)
    \/ \E s \in Subs : WaitTimer(s)
    \/ \E s \in Subs : HScanLine(s)
    \/ \E s \in Subs : HScanEnd(s)
    \/ \E s \in Subs : WConnect(s)
    \/ \E s \in Subs : WLoopCancelled(s)
    \/ \E s \in Subs : WReadMessage(s)
    \/ \E s \in Subs : WReadError(s)
    \/ \E s \in Subs : PingExit(s)
    \/ \E s \in Subs : RPSubscribe(s)
    \/ \E s \in Subs : RInit(s)
    \/ \E s \in Subs : RListenStop(s)
    \/ \E s \in Subs : RListenMsg(s)
    \/ \E s \in Subs : RFetch(s)
    \/ \E s \in Subs : KHandle(s)
    \/ \E s \in Subs : KReadBegin(s)
    \/ \E s \in Subs : KGet(s)

Spec == Init /\ [][Next]_vars

\* one subscription: the caller subscribes once and the sources cause up
\* to MaxEvents events
InitOne ==
    /\ kind \in Kinds
    /\ retryAttempts = 1
    /\ retryDelay = 1
    /\ slots = 1
    /\ budget = MaxEvents
    /\ content \in (IF kind = "file" THEN {1} ELSE {1, Missing})
    /\ InitReader
    /\ NoStream
    /\ NoNotify
    /\ NoResolve
    /\ NoURI
    /\ NoForward
    /\ NoWSRead
    /\ NoOwn

SpecOne == InitOne /\ [][Next]_vars

\* one subscription of a k8s reader in a namespace that holds other
\* resources of the same kind
InitK8s ==
    /\ kind = "k8s"
    /\ InitOne

NextK8s ==
    \/ \E c \in Callers : Close(c)
    \/ \E c \in Callers : Return(c)
    \/ \E c \in Callers : ReadBegin(c)
    \/ \E c \in Callers : ReadFetch(c)
    \/ \E c \in Callers : CancelCall(c)
    \/ \E c \in Callers : SubscribeBegin(c)
    \/ \E c \in Callers : SubscribeSync(c)
    \/ \E s \in Subs : CancelSub(s)
    \/ \E v \in Contents \cup {Missing} : Change(v)
    \/ \E op \in OtherOps : OtherResource(op)
    \/ \E s \in Subs : Recv(s)
    \/ \E s \in Subs : SendEvent(s)
    \/ \E s \in Subs : SendCancelled(s)
    \/ \E s \in Subs : KHandle(s)
    \/ \E s \in Subs : KReadBegin(s)
    \/ \E s \in Subs : KGet(s)

SpecK8s == InitK8s /\ [][NextK8s]_vars

\* one-shot Read alone, for every retry configuration the constructors
\* accept and every initial value of the source
InitRead ==
    /\ kind \in Kinds
    /\ retryAttempts \in RetryRange(kind)
    /\ retryDelay \in {0, 1}
    /\ slots = 0
    /\ budget = 0
    /\ content \in (IF kind = "file" THEN Contents ELSE Contents \cup {Missing})
    /\ InitReader
    /\ NoStream
    /\ NoNotify
    /\ NoResolve
    /\ NoURI
    /\ NoForward
    /\ NoWSRead
    /\ NoOwn

NextRead ==
    \/ \E c \in Callers : Close(c)
    \/ \E c \in Callers : Return(c)
    \/ \E c \in Callers : ReadBegin(c)
    \/ \E c \in Callers : ReadFetch(c)
    \/ \E c \in Callers : ReadWaitCancelled(c)
    \/ \E c \in Callers : ReadWaitTimer(c)
    \/ \E c \in Callers : CancelCall(c)
    \/ \E v \in Contents \cup {Missing} : Change(v)

SpecRead == InitRead /\ [][NextRead]_vars

\* Read on a WebSocket reader, readOnce taken step by step
InitWSRead ==
    /\ kind = "ws"
    /\ InitRead

NextWSRead ==
    \/ \E c \in Callers : Close(c)
    \/ \E c \in Callers : Return(c)
    \/ \E c \in Callers : ReadBegin(c)
    \/ \E c \in Callers : WSDial(c)
    \/ \E c \in Callers : WSReadOne(c)
    \/ \E c \in Callers : ReadWaitCancelled(c)
    \/ \E c \in Callers : ReadWaitTimer(c)
    \/ \E c \in Callers : CancelCall(c)

SpecWSRead == InitWSRead /\ [][NextWSRead]_vars

\* processSSEStream alone, over every stream of at most MaxLines lines
Streams == UNION { [1..n -> SSELines] : n \in 0..MaxLines }

InitSSE ==
    /\ kind = "http"
    /\ retryAttempts = 1
    /\ retryDelay = 1
    /\ slots = 0
    /\ budget = 0
    /\ content = 1
    /\ InitReader
    /\ stream \in Streams
    /\ pos = 1
    /\ eventData = <<>>
    /\ emitted = <<>>
    /\ sseDone = FALSE
    /\ NoNotify
    /\ NoResolve
    /\ NoURI
    /\ NoForward
    /\ NoWSRead
    /\ NoOwn

NextSSE == SSEScan \/ SSEEnd

SpecSSE == InitSSE /\ [][NextSSE]_vars

\* ensureKeyspaceNotifications alone, against a server whose setting
\* other clients change too
InitNotify ==
    /\ kind = "redis"
    /\ retryAttempts = 1
    /\ retryDelay = 1
    /\ slots = 0
    /\ budget = 0
    /\ content = 1
    /\ InitReader
    /\ NoStream
    /\ NoResolve
    /\ NoURI
    /\ NoForward
    /\ NoWSRead
    /\ NoOwn
    /\ flags \in {Render(f) : f \in SUBSET NotifyFlags}
    /\ cur = {}
    /\ epc = "get"
    /\ eres = "nil"

NextNotify ==
    \/ EnsureGet
    \/ EnsureSet
    \/ \E f \in NotifyFlags : OtherClientSet(f)
    \/ EnsureAgain

SpecNotify == InitNotify /\ [][NextNotify]_vars

\* key resolution alone, over every resource of at most MaxKeys keys
InitResolve ==
    /\ kind = "k8s"
    /\ retryAttempts = 1
    /\ retryDelay = 1
    /\ slots = 0
    /\ budget = 0
    /\ content = 1
    /\ InitReader
    /\ NoStream
    /\ NoNotify
    /\ resKind \in {"configmap", "secret"}
    /\ resData \in DataMaps
    /\ resKey \in KeyNames \cup {NoKey}
    /\ resOut = NoOut
    /\ NoURI
    /\ NoForward
    /\ NoWSRead
    /\ NoOwn

NextResolve == Resolve

SpecResolve == InitResolve /\ [][NextResolve]_vars

\* the registry: the init() registrations, then one NewReader or
\* NewFileReader call with any URI of at most MaxURI characters
InitURI ==
    /\ kind = "file"
    /\ retryAttempts = 1
    /\ retryDelay = 1
    /\ slots = 0
    /\ budget = 0
    /\ content = 1
    /\ InitReader
    /\ NoStream
    /\ NoNotify
    /\ NoResolve
    /\ registry = {}
    /\ ridx = 1
    /\ uri \in URIs
    /\ entry \in {"NewReader", "NewFileReader"}
    /\ fexists \in BOOLEAN
    /\ upc = "idle"
    /\ uout = "none"
    /\ invoked = <<>>
    /\ stats = 0
    /\ NoForward
    /\ NoWSRead
    /\ NoOwn

NextURI == Register \/ NewReader \/ NewFileReader \/ Stat \/ NewHTTPReader

SpecURI == InitURI /\ [][NextURI]_vars

\* SubscribeCtx has loaded the first configuration from payload c, put the
\* initial event in confEventChan and started the forwarding goroutine
InitForward ==
    /\ kind = "file"
    /\ retryAttempts = 1
    /\ retryDelay = 1
    /\ slots = 0
    /\ budget = 0
    /\ content = 1
    /\ InitReader
    /\ NoStream
    /\ NoNotify
    /\ NoResolve
    /\ NoURI
    /\ eventChan = <<>>
    /\ eventClosed = FALSE
    /\ \E c \in Contents :
         /\ confEventChan = <<ConfEv("none", Decoded(c))>>
         /\ rawData = c
    /\ confClosed = FALSE
    /\ fpc = "select"
    /\ fprev = NoEv
    /\ fdec = "none"
    /\ confEvent = ConfEv("none", NoConfig)
    /\ fsent = 0
    /\ NoWSRead
    /\ NoOwn

NextForward ==
    \/ ReaderSend \/ ReaderClose
    \/ ForwardEvent \/ ForwardSend \/ ForwardClosed \/ ForwardCancelled
    \/ ConfReceive

SpecForward == InitForward /\ [][NextForward]_vars

\* the forwarding goroutine is scheduled whenever it can take a step; the
\* reader and the consumer of the returned channel are not obliged to act
ForwardStep == ForwardEvent \/ ForwardSend \/ ForwardClosed \/ ForwardCancelled

SpecForwardFair == SpecForward /\ WF_vars(ForwardStep)

\* a ConfOpt just made by New: no reader yet
InitOwn ==
    /\ kind = "file"
    /\ retryAttempts = 1
    /\ retryDelay = 1
    /\ slots = 0
    /\ budget = 0
    /\ content = 1
    /\ InitReader
    /\ NoStream
    /\ NoNotify
    /\ NoResolve
    /\ NoURI
    /\ NoForward
    /\ NoWSRead
    /\ readers = <<>>
    /\ creader = 0
    /\ lclosed = FALSE

NextOwn == LoadCtx \/ SubscribeCtx \/ ConfClose

SpecOwn == InitOwn /\ [][NextOwn]_vars

\* every delivery queue of the repository: that of a reader used on its
\* own, with its producer, or that of the loader, with its forwarding
\* goroutine
NextQueues == (NoForward /\ Next) \/ NextForward

SpecQueues == (InitOne \/ InitForward) /\ [][NextQueues]_vars

TypeOK ==
    /\ kind \in Kinds
    /\ closed \in BOOLEAN
    /\ rlocks \in 0..(Cardinality(Callers) + MaxSubs)
    /\ nsubs \in 0..MaxSubs
    /\ \A s \in Subs : Len(queue[s]) <= QueueDepth

\* a scheduled goroutine eventually runs: every producer and every call
\* that can take a step eventually takes one
ProducerStep(s) ==
    \/ SendEvent(s) \/ SendCancelled(s)
    \/ FSelectStop(s) \/ FSelectEvent(s) \/ FRead(s) \/ FSelectError(s)
    \/ HConnect(s) \/ WaitCancelled(s) \/ WaitTimer(s)
    \/ HScanLine(s) \/ HScanEnd(s)
    \/ WConnect(s) \/ WLoopCancelled(s) \/ WReadMessage(s) \/ WReadError(s)
    \/ RPSubscribe(s) \/ RInit(s) \/ RListenStop(s) \/ RListenMsg(s) \/ RFetch(s)
    \/ KHandle(s) \/ KReadBegin(s) \/ KGet(s)

CallStep(c) ==
    \/ ReadFetch(c) \/ SubscribeEnsure(c) \/ SubscribeSync(c) \/ Return(c)

SpecFair ==
    /\ InitOne
    /\ [][Next]_vars
    /\ \A s \in Subs : WF_vars(ProducerStep(s))
    /\ \A c \in Callers : WF_vars(CallStep(c))

\* the calls whose return the code bounds: a fetch ends by the client's
\* timeout, CONFIG GET / SET by the redis read timeout.  The k8s cache
\* sync is a poll of informer.HasSynced that ends only when the cache has
\* synced or the context is done, so it is certain to end only once the
\* context is done
BoundedCallStep(c) ==
    \/ ReadFetch(c) \/ SubscribeEnsure(c) \/ Return(c)
    \/ (cctx[c] /\ SubscribeSync(c))

SpecSched ==
    /\ InitOne
    /\ [][Next]_vars
    /\ \A s \in Subs : WF_vars(ProducerStep(s))
    /\ \A c \in Callers : WF_vars(BoundedCallStep(c))

\* ------------------------------------------------------------ properties
\* a subscription whose Subscribe returned the queue; it is active until
\* its producer returns or its context is cancelled
Started(s) == s <= nsubs /\ sok[s]
Active(s)  == Started(s) /\ ppc[s] # "done" /\ ~sctx[s]

\* C1: once a Close call has returned, every Read or Subscribe begun
\* afterwards returns the closed error with no data and no queue, and no
\* subscription slot (producer) is created by such a call.
C1_ClosedRejects ==
    /\ \A c \in Callers :
         (cafter[c] /\ cop[c] \in {"read", "subscribe"})
            => (cpc[c] = "ret" /\ cres[c] = Err("closed"))
    /\ \A s \in Subs : ~safter[s]

C1_Witness ==
    \E c \in Callers :
        /\ cafter[c] /\ cop[c] = "subscribe" /\ cpc[c] = "ret"
        /\ cres[c].tag = "closed"
        /\ nsubs = 1 /\ closed

\* C2: over any sequence of Subscribe, failed Subscribe and Close, every
\* underlying resource (file watcher, informer stop channel, pub/sub
\* handle, redis client) is closed at most once.
C2_ClosedAtMostOnce ==
    /\ \A s \in Subs : rcloses[s] <= 1
    /\ clientCloses <= 1

\* C3: a reader instance has at most one active subscription: a Subscribe
\* made while an earlier subscription is active returns an error, not a
\* second queue.
C3_SingleSubscription ==
    \A c \in Callers :
        (cpc[c] = "ret" /\ cop[c] = "subscribe" /\ cres[c].tag = "queue")
            => \A s \in Subs : Active(s) => s = cres[c].data

\* C4: once the context of a successful Subscribe is cancelled, the
\* producer eventually stops and the queue is eventually closed.
C4_CancelClosesQueue ==
    \A s \in Subs : (Started(s) /\ sctx[s]) ~> (qcloses[s] >= 1)

\* C5: a producer that has returned because its context was cancelled has
\* released the transport resource it held (watcher, pub/sub handle,
\* socket), without a later Close.
C5_ReleasedOnCancel ==
    \A s \in Subs :
        (sctx[s] /\ ppc[s] = "done" /\ ~closed) => rstate[s] # "open"

\* creation numbers of a sequence of events
Ids(q) == [i \in 1..Len(q) |-> q[i].id]
\* the events of a subscription that were not abandoned, oldest first:
\* taken by the consumer, buffered, held by the blocked producer
Pending(s) == received[s] \o queue[s] \o
              (IF hand[s] = NoEv THEN <<>> ELSE <<hand[s]>>)

\* C6: while the subscription's context is not cancelled, the events the
\* consumer has received are, in order and without gap or repetition, the
\* first events the producer created; the rest are in the depth-1 buffer
\* or held by the blocked producer.
C6_FifoNoLoss ==
    \A s \in Subs :
        ~sctx[s] =>
            /\ Ids(Pending(s)) = [i \in 1..np[s] |-> i]
            /\ Len(queue[s]) <= QueueDepth

C6_Witness ==
    \E s \in Subs :
        /\ ~sctx[s]
        /\ Len(received[s]) >= 2
        /\ received[s][1].id = 1 /\ received[s][2].id = 2

\* number of failed attempts in a history of fetch outcomes
RECURSIVE Failures(_)
Failures(h) == IF h = <<>> THEN 0
               ELSE (IF Head(h) = "ok" THEN 0 ELSE 1) + Failures(Tail(h))

\* C7: an HTTP Read with retry_attempts = n whose context stays live:
\* k < n failures followed by a 200 return the body after exactly k + 1
\* requests; when every attempt fails, exactly n requests are made and
\* the error names n and wraps the last failure.
C7_RetryCount ==
    \A c \in Callers :
        (kind = "http" /\ cop[c] = "read" /\ ~cctx[c] /\ cresp[c] # <<>>) =>
            LET h == cresp[c]
                k == Failures(h)
            IN /\ chits[c] = Len(h)
               /\ chits[c] <= retryAttempts
               /\ \A i \in 1..(Len(h) - 1) : h[i] # "ok"
               /\ cpc[c] = "ret" =>
                    IF h[Len(h)] = "ok"
                    THEN /\ cres[c] = Ok(content)
                         /\ chits[c] = k + 1 /\ k < retryAttempts
                    ELSE /\ chits[c] = retryAttempts
                         /\ cres[c] = FailedAfter(retryAttempts, h[Len(h)])

C7_Witness ==
    \E c \in Callers :
        /\ kind = "http" /\ retryAttempts = 2 /\ ~cctx[c]
        /\ cpc[c] = "ret" /\ cop[c] = "read"
        /\ cresp[c] = <<"status500", "ok">>
        /\ chits[c] = 2 /\ cres[c].tag = "ok"

\* C8: a key-value Read of a missing key issues exactly one GET and
\* returns not-found, whatever the configured retry count.
C8_MissingKeyOneGet ==
    \A c \in Callers :
        (kind = "redis" /\ cop[c] = "read" /\ ~cctx[c]
            /\ content = Missing /\ changes = 0 /\ clientCloses = 0) =>
            /\ chits[c] <= 1
            /\ cpc[c] = "ret" => (chits[c] = 1 /\ cres[c].cause = "notFound")

\* C9: a file or HTTP Read called with an already-cancelled context on an
\* open reader returns exactly context.Canceled and no data, for every
\* retry_attempts >= 1.
C9_PreCancelled ==
    \A c \in Callers :
        (kind \in {"file", "http"} /\ cop[c] = "read" /\ cpre[c]
            /\ cpc[c] = "ret" /\ cres[c].tag # "closed")
            => cres[c] = Err("ctxCanceled")

\* the events an SSE stream carries: each run of data lines ended by a
\* blank line is one event, its contents joined by newlines; comments and
\* other fields add nothing
RECURSIVE ExpectedEvents(_, _)
ExpectedEvents(lines, buf) ==
    IF lines = <<>> THEN <<>>
    ELSE LET l == Head(lines) IN
         IF l = <<>>
         THEN (IF buf # <<>> THEN <<buf>> ELSE <<>>)
              \o ExpectedEvents(Tail(lines), <<>>)
         ELSE IF HasPrefix(l, DataPrefix)
         THEN LET d == TrimSpace(TrimPrefix(l, DataPrefix))
              IN ExpectedEvents(Tail(lines),
                    (IF buf # <<>> THEN Append(buf, Newline) ELSE buf) \o d)
         ELSE ExpectedEvents(Tail(lines), buf)

\* C10: when the scanner has consumed the stream, the events emitted are
\* exactly the events the stream carries, in order.
C10_OneEventPerRun ==
    sseDone => emitted = ExpectedEvents(stream, <<>>)

\* C11: each time the SSE connection of a live subscription fails to open,
\* answers with a non-200 status, or ends after it was established (a
\* normal end of stream included), the producer creates exactly one error
\* event, which it sends before it waits and reconnects.
C11_ErrorEventPerFailure ==
    [][\A s \in Subs :
         (kind = "http" /\ ~sctx[s] /\ ppc[s] \in {"h_top", "h_scan"}
            /\ ppc'[s] \notin {ppc[s], "h_scan", "h_send_data"})
         => /\ np'[s] = np[s] + 1
            /\ hand'[s].err # "none"
            /\ ppc'[s] \in {"h_send_conn", "h_send_stream"}]_vars

\* error tags of a connection that could not be opened
ConnectErrors == {"do", "status", "dial"}

AbnormalEnds == {CloseAbnormalClosure, NetError}

\* C13: when an established WebSocket connection of a live subscription
\* ends abnormally (abnormal-closure code, or a read error that is not a
\* clean close), exactly one error event is created for that connection.
C13_AbnormalCloseEvent ==
    [][\A s \in Subs : \A code \in AbnormalEnds :
         (kind = "ws" /\ ~sctx[s] /\ WReadErrorWith(s, code))
         => /\ np'[s] = np[s] + 1
            /\ hand'[s].err = "wsRead"]_vars

\* C14: when the server closes an established WebSocket connection
\* cleanly (normal-closure close frame), no error event is created for
\* that connection.
C14_CleanCloseSilent ==
    [][\A s \in Subs :
         (kind = "ws" /\ WReadErrorWith(s, CloseNormalClosure))
         => /\ np'[s] = np[s]
            /\ hand'[s] = NoEv]_vars

\* C15: the ping task of a torn-down connection has ended before the
\* reconnect loop opens the next connection, so a subscription never has
\* more than one live ping task.
C15_OnePingTask ==
    \A s \in Subs : pings[s] <= 1

\* C16: a key-value subscription whose producer has made its initial read
\* has created a first event from that read, the value or the read error,
\* before it listens for notifications.
C16_InitialEvent ==
    \A s \in Subs :
        (kind = "redis" /\ ppc[s] \in {"r_listen", "r_fetch", "r_send"})
            => np[s] >= 1

\* C17: the reader's CONFIG SET never turns off a flag that is set on the
\* server at that moment, whoever set it, and it is issued only when the
\* keyspace flag or both command-class flags were missing.
C17_FlagsOnlyAdded ==
    [][(epc = "set" /\ epc' = "done")
         => /\ flags \subseteq flags'
            /\ NeedsKeyspace(cur) \/ NeedsCommands(cur)]_vars

\* C18: redis Subscribe whose ensureKeyspaceNotifications step fails (the
\* slot ends as "failed") returns the keyspace-notification error and no
\* queue, starts no producer and creates no PubSub, emits nothing, and
\* leaves the reader open with its lock released and its client not closed.
C18_SetupFailureFailsSubscribe ==
    [][\A c \in Callers :
         (kind = "redis" /\ cpc[c] = "sub_ensure"
            /\ ppc'[cslot[c]] = "failed")
         => /\ cpc'[c] = "ret"
            /\ cres'[c] = Err("notify")
            /\ ~sok'[cslot[c]]
            /\ np'[cslot[c]] = 0
            /\ rstate'[cslot[c]] = rstate[cslot[c]]
            /\ rstate'[cslot[c]] # "open"
            /\ ~closed /\ ~closed'
            /\ ~wlock' /\ rlocks' = 0
            /\ clientCloses' = clientCloses]_vars

\* a subscription whose setup failed, and a Read on the same reader
\* that afterwards returned data
C18_Witness ==
    /\ kind = "redis"
    /\ nsubs = 1 /\ ppc[1] = "failed" /\ ~sok[1]
    /\ ~closed
    /\ \E c \in Callers :
         cop[c] = "read" /\ cpc[c] = "ret" /\ cres[c].tag = "ok"

\* C19: k8s Subscribe whose WaitForCacheSync does not complete returns the
\* sync error and no queue, closes the stop channel it made exactly once,
\* and resets the informer and stop channel fields, so the
\* already-subscribed test is false again and the lock is released.
C19_SyncFailureResets ==
    [][\A c \in Callers :
         (kind = "k8s" /\ cpc[c] = "sub_sync" /\ cpc'[c] = "ret"
            /\ cres'[c].tag # "queue")
         => /\ cres'[c] = Err("sync")
            /\ ~sok'[cslot[c]]
            /\ rstate[cslot[c]] = "open"
            /\ rstate'[cslot[c]] = "closed"
            /\ rcloses'[cslot[c]] = rcloses[cslot[c]] + 1
            /\ rcloses'[cslot[c]] = 1
            /\ informer' = 0 /\ stopCh' = 0
            /\ ~closed'
            /\ ~wlock' /\ rlocks' = 0]_vars

\* a Subscribe that returned the sync error, with the marker reset
C19_Witness ==
    /\ kind = "k8s"
    /\ nsubs = 1 /\ ~sok[1] /\ rstate[1] = "closed"
    /\ informer = 0 /\ ~AlreadySubscribed
    /\ \E c \in Callers :
         cop[c] = "subscribe" /\ cpc[c] = "ret" /\ cres[c].tag = "sync"

\* C21: k8s Subscribe: the handler's step for a delete notification builds
\* exactly one event, and that event's error is non-nil; the steps for an
\* add or update notification build exactly one event, made by the Get of
\* a Read begun after the settle delay (or by that Read's early return).
C21_DeleteIsError ==
    [][\A s \in Subs :
         /\ (kind = "k8s" /\ ppc[s] = "k_idle" /\ ppc'[s] = "k_send")
              => /\ Head(notif[s]) = "delete"
                 /\ np'[s] = np[s] + 1
                 /\ hand'[s].err # "none"
         /\ (kind = "k8s" /\ ppc[s] = "k_idle" /\ ppc'[s] = "k_sleep")
              => /\ Head(notif[s]) \in {"add", "update"}
                 /\ np'[s] = np[s]
         /\ (kind = "k8s" /\ ppc[s] \in {"k_sleep", "k_get"}
               /\ ppc'[s] = "k_send")
              => np'[s] = np[s] + 1]_vars

\* C22: for every reader but the file reader, the first event a
\* subscription delivers is a valid event carrying the source's state (for
\* redis and k8s, while the source has not changed, the source's content),
\* and an event built because of a change notification (redis re-fetch,
\* k8s update or delete handler) is never the first event of its
\* subscription.
C22_InitialStateFirst ==
    [][\A s \in Subs :
         kind # "file" =>
           /\ (received[s] = <<>> /\ received'[s] # <<>>)
                => /\ received'[s][1].err = "none"
                   /\ (kind \in {"redis", "k8s"} /\ changes = 0)
                        => received'[s][1].data = content
           /\ (kind = "redis" /\ ppc[s] = "r_fetch" /\ ppc'[s] = "r_send")
                => np[s] >= 1
           /\ (kind = "k8s" /\ ppc[s] = "k_idle" /\ ppc'[s] # "k_idle")
                => (Head(notif[s]) \in {"update", "delete"} => np[s] >= 1)]_vars

\* valid events a subscription has built so far: delivered, queued, or
\* held by the producer
Built(s) ==
    received[s] \o queue[s] \o (IF hand[s] = NoEv THEN <<>> ELSE <<hand[s]>>)
ValidBuilt(s) == {i \in 1..Len(Built(s)) : IsValid(Built(s)[i])}

\* C23: file Subscribe: a subscription builds at most one valid event per
\* write made to the file (none when the file does not change), and after
\* a single write every valid event carries the content that was written.
C23_OneEventPerWrite ==
    kind = "file" =>
        \A s \in Subs :
            /\ Cardinality(ValidBuilt(s)) <= changes
            /\ changes <= 1 =>
                 \A i \in ValidBuilt(s) : Built(s)[i].data = content

\* a bare local path: "/" followed by name characters only
BarePath(u) ==
    /\ Len(u) >= 2 /\ u[1] = "/"
    /\ \A i \in 2..Len(u) : u[i] \in Letters

\* C24: once the init functions have run the empty scheme is registered,
\* and NewFileReader and NewReader, called with a bare path to an existing
\* file, return a reader.
C24_EmptySchemeAccepted ==
    /\ ridx > Len(Registrations) => SchemeDefault \in registry
    /\ (upc = "done" /\ entry \in {"NewReader", "NewFileReader"}
          /\ BarePath(uri) /\ fexists)
         => uout = "reader"

\* the URIs NewReader must refuse: blank, malformed, without a scheme, or
\* with a scheme that has no constructor
Blank(u) == \A i \in 1..Len(u) : u[i] = " "
SchemeOf(u) ==
    IF \E i \in 2..Len(u) : u[i] = ":" /\ \A j \in 1..(i - 1) : u[j] \in Letters
    THEN LET i == CHOOSE n \in 2..Len(u) :
                     u[n] = ":" /\ \A j \in 1..(n - 1) : u[j] \in Letters
         IN SubSeq(u, 1, i - 1)
    ELSE <<>>
Refused(u) ==
    Blank(u) \/ Parse(u).err \/ SchemeOf(u) = <<>> \/ SchemeOf(u) \notin registry

C26_RetryAtLeastOne ==
    \A c \in Callers :
        (cop[c] = "read" /\ cpc[c] = "ret" /\ ~cpre[c]
           /\ cres[c].tag # "closed")
        => /\ kind \in RetryKinds => retryAttempts >= 1
           /\ chits[c] >= 1

\* positions at which a call or a producer is inside a network call or a
\* retry sleep
CallSuspended(c) == cpc[c] \in {"rd_fetch", "rd_wait", "sub_ensure", "sub_sync"}
ProducerSuspended(s) == s <= nsubs /\ ppc[s] \in {"k_get"}

\* C27: while a Read or Subscribe call, or a producer, is inside a network
\* call (fetch, CONFIG GET / SET, cache sync, Get) or a retry sleep, the
\* reader's lock is held neither for reading nor for writing.
C27_NoLockWhileSuspended ==
    ((\E c \in Callers : CallSuspended(c))
        \/ (\E s \in Subs : ProducerSuspended(s)))
    => (~wlock /\ rlocks = 0)

\* what would make the Go runtime panic: a second close of an event
\* channel or of the informer's stop channel, or a send on a closed event
\* channel
NoPanic ==
    \A s \in Subs :
        /\ qcloses[s] <= 1
        /\ ppc[s] \in SendSites => qcloses[s] = 0
        /\ kind = "k8s" => rcloses[s] <= 1

\* C28: Close waits only for the reader's lock, so it returns once the lock
\* is free: whenever the lock is held (by an in-flight Read or Subscribe,
\* or by a watch callback's Read) it is eventually free again, whatever
\* the producers and the consumer do; and no step closes a channel twice
\* or sends on a closed channel.
C28_CloseReturns ==
    /\ []NoPanic
    /\ (~LockFree) ~> LockFree

\* a setting under which the server publishes keyspace notifications for
\* the commands that change a key
Enables(f) == "K" \in f /\ (f \cap {"s", "$", "A"}) # {}

\* C30: a Subscribe that reads a server setting already holding the
\* keyspace flag and a command-class flag ends without a CONFIG SET, so it
\* issues no write and leaves the setting as it was.
C30_EnableIdempotent ==
    [][(epc = "get" /\ Enables(flags) /\ epc' # "get")
         => (epc' = "done" /\ flags' = flags)]_vars

\* C29: a ReadEvent is valid exactly when its error is nil and its payload
\* is non-empty; the ConfEvent the loader builds from a reader event carries
\* a Config only if that event was valid and its decoding succeeded, and
\* when the reader event has an error the ConfEvent keeps that error and
\* has no Config.
C29_ForwardFaithful ==
    /\ \A e \in ReadEvents :
         IsValid(e) <=> (e.err = "none" /\ e.data \in Contents)
    /\ fdec # "none" =>
         /\ confEvent.config # NoConfig =>
              /\ fprev.err = "none"
              /\ fprev.data \in Contents
              /\ fdec = "ok"
         /\ fprev.err # "none" =>
              /\ confEvent.err = fprev.err
              /\ confEvent.config = NoConfig
         /\ \A i \in 1..Len(confEventChan) :
              confEventChan[i].config # NoConfig => confEventChan[i].err = "none"

\* the goroutine has forwarded an error event that carried bytes
C29_Witness ==
    /\ fprev.err # "none"
    /\ fprev.data \in Contents
    /\ fdec = "ok"
    /\ confEventChan = <<confEvent>>
    /\ confEvent.config = NoConfig

\* C31: in the retried Read of the HTTP, WebSocket and key-value readers
\* the first attempt is made without a wait, every later attempt follows a
\* wait of the configured delay, and a Read whose context is cancelled
\* while it waits between attempts returns the context error without
\* another attempt.
C31_RetryWait ==
    [][\A c \in Callers :
        (kind \in RetryKinds /\ cop'[c] = "read") =>
            /\ cpc'[c] = "rd_wait" => chits'[c] >= 1
            /\ chits'[c] > chits[c] => cpc'[c] # "rd_fetch"
            /\ retryDelay' = retryDelay
            /\ (cpc[c] = "rd_wait" /\ cctx[c] /\ ~cpre[c]
                  /\ cpc'[c] # "rd_wait") =>
                 /\ cpc'[c] = "ret"
                 /\ cres'[c] = Err("ctxCanceled")
                 /\ chits'[c] = chits[c]]_vars

\* C32: the channel SubscribeCtx returns holds the initial configuration
\* first and then the events built from the reader's events in the order
\* the reader sent them, and once the reader's queue is closed the
\* forwarding goroutine eventually returns and closes that channel, whether
\* or not the consumer receives from it.
C32_SubscriptionEnds ==
    /\ [][confEventChan' # confEventChan =>
            IF Len(confEventChan') < Len(confEventChan)
            THEN confEventChan' = Tail(confEventChan)
            ELSE confEventChan' = Append(confEventChan, Forward(fprev, fdec))]_vars
    /\ eventClosed ~> confClosed

\* C33: a WebSocket Read dials one connection per attempt, receives one
\* message on the connection of a successful attempt and none otherwise,
\* and has closed every connection it dialled when an attempt ends, so no
\* connection of the Read is open when it returns.
C33_ReadOnceClosesConn ==
    \A c \in Callers :
        (kind = "ws" /\ cop[c] = "read") =>
            /\ wopen = (IF cpc[c] = "rd_msg" THEN 1 ELSE 0)
            /\ cpc[c] = "ret" => wopen = 0
            /\ chits[c] >= 1 =>
                 /\ wdials = chits[c]
                 /\ wmsgs \in {0, 1}
                 /\ cpc[c] = "ret" => ((wmsgs = 1) <=> (cres[c].tag = "ok"))

\* a Read whose first connection failed in ReadMessage and whose second
\* connection delivered the message has returned
C33_Witness ==
    \E c \in Callers :
        /\ kind = "ws" /\ cop[c] = "read" /\ cpc[c] = "ret"
        /\ cresp[c] = <<"readMessage", "ok">>
        /\ wdials = 2 /\ wmsgs = 1 /\ wopen = 0

\* C34: in every reader and in the loader a delivery queue is closed at
\* most once, no producer is at a send on a queue that has been closed, and
\* nothing is added to a queue after its close, whatever the interleaving of
\* producer, callbacks, failed Subscribe, cancellation and Close.
C34_QueueClosedOnce ==
    /\ [](\A s \in Subs :
            /\ qcloses[s] <= 1
            /\ ppc[s] \in SendSites => qcloses[s] = 0)
    /\ [](confClosed => fpc = "done")
    /\ [][/\ \A s \in Subs :
               qcloses[s] >= 1 => Len(queue'[s]) <= Len(queue[s])
          /\ confClosed =>
               /\ confClosed'
               /\ Len(confEventChan') <= Len(confEventChan)]_vars

\* a producer has delivered an event and closed its queue after a Close
C34_Witness ==
    \E s \in Subs :
        /\ closed /\ Started(s) /\ ppc[s] = "done"
        /\ qcloses[s] = 1 /\ received[s] # <<>>

\* the producer goroutine of slot s has been started and has not returned
Running(s) == s <= nsubs /\ ppc[s] \notin {"none", "failed", "done"}

\* C35: on an open file reader the stored watcher is set exactly while a
\* producer goroutine of the instance is running, so a Subscribe made after
\* the earlier subscription has ended is not refused as already subscribed.
C35_MarkerWhileRunning ==
    kind = "file" =>
        /\ watcher # 0 => \E s \in Subs : Running(s)
        /\ ~closed => \A s \in Subs : Running(s) => watcher = s
        /\ \A c \in Callers :
             (cpc[c] = "ret" /\ cop[c] = "subscribe"
                /\ cres[c] = Err("alreadySubscribed"))
                => \E s \in Subs : Running(s)

\* C36: once a Close has returned, the producer of every subscription
\* eventually returns and its queue is eventually closed, also when the
\* subscription's context is never cancelled, and no valid event is built
\* from a fetch or message obtained after that Close.
C36_CloseEndsSubscription ==
    /\ closeDone ~> (\A s \in Subs :
                        Started(s) => (ppc[s] = "done" /\ qcloses[s] = 1))
    /\ [][\A s \in Subs :
            (closeDone /\ np'[s] > np[s]) => ~IsValid(hand'[s])]_vars

\* C37: a k8s subscription takes no action on the add, update or delete of
\* a resource other than the one named in the URI: the handler called for
\* it builds no event and starts no re-read.
C37_OnlyNamedResource ==
    [][\A s \in Subs :
        (kind = "k8s" /\ ppc[s] = "k_idle" /\ notif[s] # <<>>
            /\ notif'[s] = Tail(notif[s]) /\ Head(notif[s]) \in OtherOps)
          => (ppc'[s] = "k_idle" /\ np'[s] = np[s])]_vars

\* the subscription is at rest: its context is live, the reader is open,
\* every notification has been handled, the producer is back at its select
\* and the consumer has taken every event
AtRest(s) ==
    /\ Started(s) /\ ~sctx[s] /\ ~closed
    /\ rstate[s] = "open"
    /\ ppc[s] \in {"f_select", "r_listen"}
    /\ notif[s] = <<>> /\ queue[s] = <<>>

ValidReceived(s) == {i \in 1..Len(received[s]) : IsValid(received[s][i])}

\* C38: when a file or key-value subscription is at rest after changes of
\* the source, the last valid event delivered carries the value the source
\* holds: changes may be coalesced, the final value is not missed.
C38_Converges ==
    \A s \in Subs :
        (kind \in {"file", "redis"} /\ AtRest(s) /\ content # Missing
            /\ ValidReceived(s) # {})
          => LET last == CHOOSE i \in ValidReceived(s) :
                            \A j \in ValidReceived(s) : j <= i
             IN received[s][last].data = content

\* C39: once Close has been called on a ConfOpt, after any Load and
\* Subscribe calls, every reader the ConfOpt constructed is closed; and at
\* any time at most one reader of the ConfOpt carries a subscription
C39_ReadersOwned ==
    /\ lclosed => \A i \in 1..Len(readers) : readers[i].closed
    /\ Cardinality({i \in 1..Len(readers) : readers[i].subscribed}) <= 1

\* C20: the value a cluster-resource Read resolves from a fetched
\* resource: with a selector, that key's value if present and an error if
\* absent; without one, the only value of a one-key resource, and an
\* error for no key or several keys, the latter listing the keys.
C20_KeyResolution ==
    resOut # NoOut =>
        LET ks == DOMAIN resData
            failed == resOut.tag # "ok" /\ resOut.data = Nil
        IN /\ (resKey # NoKey /\ resKey \in ks)
                => resOut = ResOk(resData[resKey])
           /\ (resKey # NoKey /\ resKey \notin ks) => failed
           /\ (resKey = NoKey /\ Cardinality(ks) = 1)
                => \A k \in ks : resOut = ResOk(resData[k])
           /\ (resKey = NoKey /\ Cardinality(ks) = 0) => failed
           /\ (resKey = NoKey /\ Cardinality(ks) > 1)
                => (failed /\ resOut.keys = ks)

C20_Witness ==
    /\ resKind = "secret"
    /\ resKey = NoKey
    /\ Cardinality(DOMAIN resData) = 2
    /\ resOut.tag = "multipleKeys"
    /\ resOut.keys = DOMAIN resData

====
